---- MODULE Spec2Model ----
(***************************************************************************)
(* domcontext: the atom-based chunker, package _internal/chunker.          *)
(*                                                                         *)
(* A SemanticIR tree is walked in DFS pre-order by SemanticIRSerializer,   *)
(* every node is cut into atoms by one of the three atomic serializers,    *)
(* and chunk_semantic_ir packs the flat atom list into Chunk objects under *)
(* a token budget (size) with overlap and continuation markers.            *)
(*                                                                         *)
(* Texts are TLA+ strings; Python list indices are kept 0-based, so the    *)
(* atom at Python index j is all_atoms[j + 1].                             *)
(***************************************************************************)
EXTENDS Integers, Sequences, FiniteSets, TLC

(***************************************************************************)
(* Bounds of the explored inputs.                                          *)
(***************************************************************************)
MaxNodes == 3
MaxAttrs == 4
MaxWords == 3
MaxFailAt == 8
MaxCalls == 4
MaxItems == 3

Sizes == {10, 25, 40, 100}
Overlaps == {0, 10}
Tokenizers == {"chars", "approx"}

None == -1

(***************************************************************************)
(* String helpers (Python str operations used by the source).              *)
(***************************************************************************)
RECURSIVE Repeat(_, _)
Repeat(s, n) == IF n <= 0 THEN "" ELSE s \o Repeat(s, n - 1)

RECURSIVE Concat(_)
Concat(ss) == IF ss = <<>> THEN "" ELSE Head(ss) \o Concat(Tail(ss))

\* " ".join(xs)
RECURSIVE JoinSpace(_)
JoinSpace(xs) ==
    IF xs = <<>> THEN ""
    ELSE IF Len(xs) = 1 THEN xs[1]
    ELSE xs[1] \o " " \o JoinSpace(Tail(xs))

IsSpace(c) == c \in {" ", "\t", "\n", "\r"}

\* str.split(): maximal runs of non-whitespace characters, in order
RECURSIVE SplitFrom(_, _, _)
SplitFrom(s, k, cur) ==
    IF k > Len(s) THEN (IF cur = "" THEN <<>> ELSE <<cur>>)
    ELSE LET c == SubSeq(s, k, k) IN
         IF IsSpace(c)
         THEN (IF cur = "" THEN <<>> ELSE <<cur>>) \o SplitFrom(s, k + 1, "")
         ELSE SplitFrom(s, k + 1, cur \o c)

split(s) == SplitFrom(s, 1, "")

StartsWith(s, p) == Len(p) <= Len(s) /\ SubSeq(s, 1, Len(p)) = p
EndsWith(s, p) == Len(p) <= Len(s) /\ SubSeq(s, Len(s) - Len(p) + 1, Len(s)) = p

(***************************************************************************)
(* Node data (ir/semantic_ir.py).  One record shape for all node kinds;    *)
(* readable_id = "" stands for None, kind "other" for data that is neither *)
(* a SemanticElement nor a SemanticText.                                   *)
(***************************************************************************)
SemanticElement(tag, attrs, readable_id) ==
    [kind |-> "element", tag |-> tag, semantic_attributes |-> attrs,
     readable_id |-> readable_id, text |-> ""]

SemanticText(text) ==
    [kind |-> "text", tag |-> "", semantic_attributes |-> <<>>,
     readable_id |-> "", text |-> text]

OtherData ==
    [kind |-> "other", tag |-> "", semantic_attributes |-> <<>>,
     readable_id |-> "", text |-> ""]

\* SemanticElement.to_markdown / SemanticText.to_markdown
RECURSIVE AttrStrs(_)
AttrStrs(attrs) ==
    IF attrs = <<>> THEN <<>>
    ELSE <<attrs[1][1] \o "=\"" \o attrs[1][2] \o "\"">> \o AttrStrs(Tail(attrs))

to_markdown(data) ==
    IF data.kind = "element"
    THEN LET id == IF data.readable_id # "" THEN data.readable_id ELSE data.tag
         IN IF data.semantic_attributes # <<>>
            THEN id \o " (" \o JoinSpace(AttrStrs(data.semantic_attributes)) \o ")"
            ELSE id
    ELSE "\"" \o data.text \o "\""

(***************************************************************************)
(* SemanticIR.dfs(with_path=True): pre-order, with depth and the list of   *)
(* the ancestors' display ids.  A tree is an arena: data[n] and the        *)
(* ordered child list children[n]; the root is node 1.                     *)
(***************************************************************************)
RECURSIVE traverse(_, _, _, _)
RECURSIVE traverse_children(_, _, _, _)
traverse(ir, n, depth, path) ==
    LET d == ir.data[n]
        node_id == IF d.kind = "element" /\ d.readable_id # "" THEN d.readable_id
                   ELSE IF d.kind = "element" THEN d.tag
                   ELSE ""
        new_path == IF node_id # "" THEN Append(path, node_id) ELSE path
    IN <<[node |-> n, depth |-> depth, path |-> path]>>
       \o traverse_children(ir, ir.children[n], depth + 1, new_path)
traverse_children(ir, kids, depth, path) ==
    IF kids = <<>> THEN <<>>
    ELSE traverse(ir, Head(kids), depth, path)
         \o traverse_children(ir, Tail(kids), depth, path)

dfs(ir) == traverse(ir, 1, 0, <<>>)

(***************************************************************************)
(* Atomic serializers (chunker/atomic_serializers.py).  Each yields the    *)
(* 7-tuples of one node as records.                                        *)
(***************************************************************************)
Tuple7(content, lsf, lsc, lec, lecont, is_first, is_last) ==
    [content |-> content, line_start_first |-> lsf, line_start_cont |-> lsc,
     line_end_complete |-> lec, line_end_cont |-> lecont,
     is_first |-> is_first, is_last |-> is_last]

base_id(element) ==
    IF element.readable_id # "" THEN element.readable_id ELSE element.tag

\* mutant: an element without attributes gets a continuation opening of its own
ElementNoAttrsSerializer_marked(element, indent) ==
    LET line_start == indent \o "- " \o base_id(element)
    IN <<Tuple7("", line_start, line_start \o " (... ", "", "", TRUE, TRUE)>>

ElementNoAttrsSerializer(element, indent) ==
    LET line_start == indent \o "- " \o base_id(element)
    IN <<Tuple7("", line_start, line_start, "", "", TRUE, TRUE)>>

ElementSerializer(element, indent) ==
    LET attrs == element.semantic_attributes
    IN [k \in 1..Len(attrs) |->
          Tuple7(attrs[k][1] \o "=\"" \o attrs[k][2] \o "\"",
                 indent \o "- " \o base_id(element) \o " (",
                 indent \o "- " \o base_id(element) \o " (... ",
                 ")", " ...)",
                 k = 1, k = Len(attrs))]

TextSerializer(text, indent) ==
    LET words == split(text.text)
    IN IF words = <<>>
       THEN <<Tuple7("", indent \o "- \"", indent \o "- \"... ",
                     "\"", " ...\"", TRUE, TRUE)>>
       ELSE [k \in 1..Len(words) |->
               Tuple7(words[k], indent \o "- \"", indent \o "- \"... ",
                      "\"", " ...\"", k = 1, k = Len(words))]

(***************************************************************************)
(* SemanticIRSerializer (chunker/semantic_ir_serializer.py).               *)
(***************************************************************************)
\* mutant: a node of unknown type is skipped, it yields no atom and no error
_create_serializer_skip(data, indent) ==
    IF data.kind = "element"
    THEN IF data.semantic_attributes # <<>>
         THEN [error |-> "", items |-> ElementSerializer(data, indent)]
         ELSE [error |-> "", items |-> ElementNoAttrsSerializer(data, indent)]
    ELSE IF data.kind = "text"
    THEN [error |-> "", items |-> TextSerializer(data, indent)]
    ELSE [error |-> "", items |-> <<>>]

\* _create_serializer: the factory; error = "ValueError" for an unknown node type
_create_serializer(data, indent) ==
    IF data.kind = "element"
    THEN IF data.semantic_attributes # <<>>
         THEN [error |-> "", items |-> ElementSerializer(data, indent)]
         ELSE [error |-> "", items |-> ElementNoAttrsSerializer(data, indent)]
    ELSE IF data.kind = "text"
    THEN [error |-> "", items |-> TextSerializer(data, indent)]
    ELSE [error |-> "ValueError", items |-> <<>>]

\* mutant: every ancestor line gets the indentation of the first
RECURSIVE ContextLines_flat(_, _)
ContextLines_flat(path, depth_idx) ==
    IF path = <<>> THEN ""
    ELSE Repeat("  ", depth_idx) \o "- " \o Head(path) \o "\n"
         \o ContextLines_flat(Tail(path), depth_idx)

\* chunk_context: one line per ancestor id in path, indented by its index
RECURSIVE ContextLines(_, _)
ContextLines(path, depth_idx) ==
    IF path = <<>> THEN ""
    ELSE Repeat("  ", depth_idx) \o "- " \o Head(path) \o "\n"
         \o ContextLines(Tail(path), depth_idx + 1)

chunk_context_of(path) == IF path # <<>> THEN ContextLines(path, 0) ELSE ""

Atom(t, chunk_context, node_id) ==
    [content |-> t.content, chunk_context |-> chunk_context,
     line_start_first |-> t.line_start_first,
     line_start_cont |-> t.line_start_cont,
     line_end_complete |-> t.line_end_complete,
     line_end_cont |-> t.line_end_cont,
     node_id |-> node_id,
     is_first_in_node |-> t.is_first, is_last_in_node |-> t.is_last]

\* mutant: node_counter is not incremented, every node gets the same id
RECURSIVE SerializeFrom_same_id(_, _, _)
SerializeFrom_same_id(ir, visits, node_counter) ==
    IF visits = <<>> THEN [error |-> "", atoms |-> <<>>]
    ELSE LET v == Head(visits)
             node_id == node_counter
             chunk_context == chunk_context_of(v.path)
             indent == Repeat("  ", v.depth)
             serializer == _create_serializer(ir.data[v.node], indent)
         IN IF serializer.error # "" THEN [error |-> serializer.error, atoms |-> <<>>]
            ELSE LET rest == SerializeFrom_same_id(ir, Tail(visits), node_counter)
                 IN IF rest.error # "" THEN rest
                    ELSE [error |-> "",
                          atoms |-> [k \in 1..Len(serializer.items) |->
                                       Atom(serializer.items[k], chunk_context, node_id)]
                                    \o rest.atoms]

\* __iter__: visits is the rest of the dfs items, node_counter the counter at
\* the next visit.  error = "ValueError" when the generator raises.
RECURSIVE SerializeFrom(_, _, _)
SerializeFrom(ir, visits, node_counter) ==
    IF visits = <<>> THEN [error |-> "", atoms |-> <<>>]
    ELSE LET v == Head(visits)
             node_id == node_counter
             chunk_context == chunk_context_of(v.path)
             indent == Repeat("  ", v.depth)
             serializer == _create_serializer(ir.data[v.node], indent)
         IN IF serializer.error # "" THEN [error |-> serializer.error, atoms |-> <<>>]
            ELSE LET rest == SerializeFrom(ir, Tail(visits), node_counter + 1)
                 IN IF rest.error # "" THEN rest
                    ELSE [error |-> "",
                          atoms |-> [k \in 1..Len(serializer.items) |->
                                       Atom(serializer.items[k], chunk_context, node_id)]
                                    \o rest.atoms]

SemanticIRSerializer(ir) == SerializeFrom(ir, dfs(ir), 0)

(***************************************************************************)
(* The explored inputs: trees of at most MaxNodes nodes over a palette of  *)
(* node data, as the filter pipeline builds them (texts are leaves), plus  *)
(* a node of unknown type.                                                 *)
(***************************************************************************)
AttrPool ==
    << <<"type", "submit-1">>, <<"name", "search-q">>, <<"role", "button-x">>,
       <<"aria", "label-go">>, <<"data", "value-zz">>, <<"lang", "english1">> >>
WordPool == <<"Sign", "in", "to", "it", "now", "ok">>

Palette ==
    { SemanticElement("div", <<>>, "div-1"),
      SemanticElement("button", SubSeq(AttrPool, 1, MaxAttrs), "button-1"),
      SemanticText(JoinSpace(SubSeq(WordPool, 1, MaxWords))),
      SemanticText(""),
      OtherData }

\* children[n] = the nodes with parent n, in index order
RECURSIVE Sorted(_)
Sorted(S) ==
    IF S = {} THEN <<>>
    ELSE LET m == CHOOSE x \in S : \A y \in S : x <= y
         IN <<m>> \o Sorted(S \ {m})

ChildrenOf(n, parent) == Sorted({k \in DOMAIN parent : parent[k] = n})

TreesOfSize(n) ==
    { [data |-> d, children |-> [k \in 1..n |-> ChildrenOf(k, p)]] :
        <<d, p>> \in { dp \in [1..n -> Palette] \X [2..n -> 1..n] :
                         \A k \in 2..n : /\ dp[2][k] < k
                                         /\ dp[1][dp[2][k]].kind = "element" } }

\* the tree of tests/unit/test_chunker.py test_overlap_working: body-1 with
\* attribute-less leaf children div-1 .. div-n
NumSiblings == 5
SiblingsTree(n) ==
    [data |-> [k \in 1..(n + 1) |->
                 IF k = 1 THEN SemanticElement("body", <<>>, "body-1")
                 ELSE SemanticElement("div", <<>>, "div-" \o ToString(k - 1))],
     children |-> [k \in 1..(n + 1) |->
                     IF k = 1 THEN [c \in 1..n |-> c + 1] ELSE <<>>]]

Trees == UNION { TreesOfSize(n) : n \in 1..MaxNodes } \cup {SiblingsTree(NumSiblings)}

(***************************************************************************)
(* State of one call chunk_semantic_ir(semantic_ir, tokenizer, size,       *)
(* overlap, include_parent_path).                                          *)
(***************************************************************************)
VARIABLES
    semantic_ir, tokenizer, size, overlap, include_parent_path,  \* arguments
    pc,                        \* position in chunk_semantic_ir
    all_atoms,                 \* list(serializer)
    chunks,                    \* the result list
    i,                         \* current atom index (0-based)
    prev_chunk_last_node_id,
    chunk,                     \* the Chunk being filled
    chunk_start_idx,
    atoms_in_chunk,            \* indices of the atoms added to chunk
    current_scope_atoms,       \* indices of the atoms of the open scope
    current_scope_node_id,
    placed                     \* history: per finished chunk, its start index,
                               \* the cursor at its end and its atoms_in_chunk

\* State of one call of the line-based chunk_semantic_ir(semantic_ir,
\* tokenizer, size, overlap, include_parent_path, max_line_tokens) of the
\* module _internal/chunker.py; its locals chunks, i and chunk carry the
\* prefix line_.
VARIABLES
    max_line_tokens,           \* argument (None: defaults to size)
    line_pc,                   \* position in the line-based chunk_semantic_ir
    all_lines,                 \* _collect_lines(...)
    line_chunks,               \* the result list
    line_i,                    \* current line index (0-based)
    line_chunk,                \* the Chunk being filled
    line_chunk_start,
    content_lines_added,
    line_placed                \* history: per finished chunk, its start index,
                               \* the cursor at its end, forced_add and the
                               \* number of parent path lines

\* The tokenizer's behaviour over one call of the atom-based packer: fail_at
\* is the number of the count_tokens call that raises (None: no call raises),
\* calls the number of count_tokens calls made so far, exception the
\* exception the call ended with ("" for none).
VARIABLES fail_at, calls, exception

fail_vars == <<fail_at, calls, exception>>

\* State of the unit-level uses of the Chunk container, of
\* _calculate_overlap_start and of _build_scope_line: added is the list of the
\* (text, tokens) arguments of the add_text calls made on chunk so far;
\* overlap_call is the last call of _calculate_overlap_start with its result;
\* scope_line_call is the last call of _build_scope_line with its result;
\* earlier is what the call of chunk_semantic_ir before the present one left
\* to its caller (its atoms are kept for comparison).
VARIABLES added, overlap_call, scope_line_call, earlier

unit_vars == <<added, overlap_call, scope_line_call, earlier>>

args == <<semantic_ir, tokenizer, size, overlap, include_parent_path>>

atom_vars == <<pc, all_atoms, chunks, i, prev_chunk_last_node_id, chunk,
               chunk_start_idx, atoms_in_chunk, current_scope_atoms,
               current_scope_node_id, placed>>

line_vars == <<max_line_tokens, line_pc, all_lines, line_chunks, line_i,
               line_chunk, line_chunk_start, content_lines_added, line_placed>>

vars == <<args, atom_vars, line_vars, fail_vars, unit_vars>>

(***************************************************************************)
(* Tokenizer.count_tokens: "chars" is the character count (the tests'      *)
(* MockTokenizer), "approx" one token per started group of 4 characters.   *)
(***************************************************************************)
count_tokens(text) ==
    IF tokenizer = "chars" THEN Len(text) ELSE (Len(text) + 3) \div 4

(***************************************************************************)
(* Chunk (chunker/chunk.py).                                               *)
(***************************************************************************)
Chunk == [text_pieces |-> <<>>, _total_tokens |-> 0]

\* mutant: the total is recomputed from the text, the tokens argument is unused
add_text_counted(c, text, tokens) ==
    [text_pieces |-> Append(c.text_pieces, text),
     _total_tokens |-> c._total_tokens + Len(text)]

add_text(c, text, tokens) ==
    [text_pieces |-> Append(c.text_pieces, text),
     _total_tokens |-> c._total_tokens + tokens]

get_tokens(c) == c._total_tokens

markdown(c) == Concat(c.text_pieces)

(***************************************************************************)
(* Helpers of chunker/chunker.py.                                          *)
(***************************************************************************)
At(j) == all_atoms[j + 1]
AtomsAt(idxs) == [k \in 1..Len(idxs) |-> At(idxs[k])]
Last(xs) == xs[Len(xs)]

\* mutant: the previous chunk's last owner is not compared
_is_continuation_never(prev_id, current_node_id, atoms) == FALSE

\* mutant: "not" is missing before atoms[0].is_first_in_node
_is_continuation_first(prev_id, current_node_id, atoms) ==
    prev_id = current_node_id /\ atoms # <<>> /\ atoms[1].is_first_in_node

_is_continuation(prev_id, current_node_id, atoms) ==
    prev_id = current_node_id /\ atoms # <<>> /\ ~atoms[1].is_first_in_node

RECURSIVE NonEmptyContents(_)
NonEmptyContents(atoms) ==
    IF atoms = <<>> THEN <<>>
    ELSE (IF Head(atoms).content # "" THEN <<Head(atoms).content>> ELSE <<>>)
         \o NonEmptyContents(Tail(atoms))

\* mutant: the closing is chosen from the first atom's flag, not from has_more
_build_scope_line_first_flag(atoms, is_continuation, has_more) ==
    IF atoms = <<>> THEN ""
    ELSE IF atoms[1].content = "" /\ atoms[1].line_end_complete = ""
    THEN (IF is_continuation THEN atoms[1].line_start_cont
          ELSE atoms[1].line_start_first) \o "\n"
    ELSE (IF is_continuation THEN atoms[1].line_start_cont
          ELSE atoms[1].line_start_first)
         \o JoinSpace(NonEmptyContents(atoms))
         \o (IF ~atoms[1].is_last_in_node THEN Last(atoms).line_end_cont
             ELSE Last(atoms).line_end_complete)
         \o "\n"

_build_scope_line(atoms, is_continuation, has_more) ==
    IF atoms = <<>> THEN ""
    ELSE IF atoms[1].content = "" /\ atoms[1].line_end_complete = ""
    THEN (IF is_continuation THEN atoms[1].line_start_cont
          ELSE atoms[1].line_start_first) \o "\n"
    ELSE LET line_start == IF is_continuation THEN atoms[1].line_start_cont
                           ELSE atoms[1].line_start_first
             line_end == IF has_more THEN Last(atoms).line_end_cont
                         ELSE Last(atoms).line_end_complete
             content == JoinSpace(NonEmptyContents(atoms))
         IN line_start \o content \o line_end \o "\n"

\* mutant: only the raw atom contents are counted, not the rendered line
_build_and_count_contents(atoms, is_continuation, has_more) ==
    [line |-> _build_scope_line(atoms, is_continuation, has_more),
     tokens |-> count_tokens(JoinSpace(NonEmptyContents(atoms)))]

_build_and_count(atoms, is_continuation, has_more) ==
    LET line == _build_scope_line(atoms, is_continuation, has_more)
    IN [line |-> line, tokens |-> count_tokens(line)]

Max(a, b) == IF a >= b THEN a ELSE b

\* mutant: the budget is tested before the atom's cost is added, so the atom
\* that crosses the overlap budget is still counted
RECURSIVE OverlapCount_late(_, _, _, _, _)
OverlapCount_late(idx, chunk_start, overlap_tokens, accumulated, overlap_count) ==
    IF idx < chunk_start THEN overlap_count
    ELSE LET atom_tokens == count_tokens(At(idx).content)
         IN IF accumulated > overlap_tokens THEN overlap_count
            ELSE OverlapCount_late(idx - 1, chunk_start, overlap_tokens,
                                   accumulated + atom_tokens, overlap_count + 1)

\* the backward loop of _calculate_overlap_start from index idx down to
\* chunk_start; the result is overlap_count
RECURSIVE OverlapCount(_, _, _, _, _)
OverlapCount(idx, chunk_start, overlap_tokens, accumulated, overlap_count) ==
    IF idx < chunk_start THEN overlap_count
    ELSE LET atom_tokens == count_tokens(At(idx).content)
         IN IF accumulated + atom_tokens > overlap_tokens THEN overlap_count
            ELSE OverlapCount(idx - 1, chunk_start, overlap_tokens,
                              accumulated + atom_tokens, overlap_count + 1)

_calculate_overlap_start(chunk_start, chunk_end, overlap_tokens) ==
    IF chunk_start >= chunk_end THEN chunk_end
    ELSE Max(chunk_end - OverlapCount(chunk_end - 1, chunk_start,
                                      overlap_tokens, 0, 0),
             chunk_start)

(***************************************************************************)
(* The line-based chunker, module _internal/chunker.py: its Chunk,         *)
(* _collect_lines and _calculate_overlap_start.                            *)
(***************************************************************************)
MaxLineTokens == {None, 30}

LineChunk == [lines |-> <<>>, _total_tokens |-> 0]

add_line(c, line, tokens) ==
    [lines |-> Append(c.lines, <<line, tokens>>),
     _total_tokens |-> c._total_tokens + tokens]

line_get_tokens(c) == c._total_tokens

\* "\n".join(xs)
RECURSIVE JoinNewline(_)
JoinNewline(xs) ==
    IF xs = <<>> THEN ""
    ELSE IF Len(xs) = 1 THEN xs[1]
    ELSE xs[1] \o "\n" \o JoinNewline(Tail(xs))

line_to_markdown(c) == JoinNewline([k \in 1..Len(c.lines) |-> c.lines[k][1]])

\* lines 67-74: the binary search for the truncation point
RECURSIVE TruncationPoint(_, _, _, _)
TruncationPoint(md, left, right, limit) ==
    IF left >= right THEN left
    ELSE LET mid == (left + right + 1) \div 2
             truncated == SubSeq(md, 1, mid) \o "..."
         IN IF count_tokens(truncated) <= limit
            THEN TruncationPoint(md, mid, right, limit)
            ELSE TruncationPoint(md, left, mid - 1, limit)

\* lines 60-79: the (markdown, tokens, path) of one dfs item
CollectLine(data, depth, path, limit) ==
    LET md == Repeat("  ", depth) \o "- " \o to_markdown(data)
        tokens == count_tokens(md)
    IN IF tokens > limit
       THEN LET left == TruncationPoint(md, 0, Len(md), limit)
                cut == SubSeq(md, 1, left) \o "..."
            IN [markdown |-> cut, tokens |-> count_tokens(cut), path |-> path]
       ELSE [markdown |-> md, tokens |-> tokens, path |-> path]

\* _collect_lines; data that is neither element nor text has no to_markdown:
\* error = "AttributeError"
_collect_lines(ir, limit) ==
    LET visits == dfs(ir)
    IN IF \E k \in DOMAIN visits : ir.data[visits[k].node].kind = "other"
       THEN [error |-> "AttributeError", lines |-> <<>>]
       ELSE [error |-> "",
             lines |-> [k \in DOMAIN visits |->
                          CollectLine(ir.data[visits[k].node], visits[k].depth,
                                      visits[k].path, limit)]]

LineAt(j) == all_lines[j + 1]

\* mutant: the loop stops as soon as the budget is reached, ">=" for ">"
RECURSIVE LineOverlapCount_strict(_, _, _, _, _)
LineOverlapCount_strict(idx, start, overlap_tokens, accumulated, overlap_count) ==
    IF idx < start THEN overlap_count
    ELSE LET tokens == LineAt(idx).tokens
         IN IF accumulated + tokens >= overlap_tokens THEN overlap_count
            ELSE LineOverlapCount_strict(idx - 1, start, overlap_tokens,
                                         accumulated + tokens, overlap_count + 1)

\* the backward loop of the line-based _calculate_overlap_start
RECURSIVE LineOverlapCount(_, _, _, _, _)
LineOverlapCount(idx, start, overlap_tokens, accumulated, overlap_count) ==
    IF idx < start THEN overlap_count
    ELSE LET tokens == LineAt(idx).tokens
         IN IF accumulated + tokens > overlap_tokens THEN overlap_count
            ELSE LineOverlapCount(idx - 1, start, overlap_tokens,
                                  accumulated + tokens, overlap_count + 1)

_calculate_overlap_start_lines(start, chunk_end, overlap_tokens) ==
    IF start >= chunk_end THEN chunk_end
    ELSE Max(chunk_end - LineOverlapCount(chunk_end - 1, start,
                                          overlap_tokens, 0, 0),
             start)

(***************************************************************************)
(* chunk_semantic_ir (chunker/chunker.py).                                 *)
(***************************************************************************)
\* before the call: no arguments bound yet (the signature's defaults)
NoTree == [data |-> <<>>, children |-> <<>>]
NoCall == [chunk_start |-> None, chunk_end |-> None, overlap_tokens |-> None,
           result |-> None, version |-> ""]
\* no call has returned yet
NoResult == [returned |-> FALSE, atoms |-> <<>>, chunks |-> <<>>,
             exception |-> ""]

NoLine == [first |-> None, last |-> None, is_continuation |-> FALSE,
           has_more |-> FALSE, line |-> ""]

Init ==
    /\ semantic_ir = NoTree
    /\ tokenizer = "chars"
    /\ size = 500
    /\ overlap = 50
    /\ include_parent_path = TRUE
    /\ pc = "idle"
    /\ all_atoms = <<>>
    /\ chunks = <<>>
    /\ i = 0
    /\ prev_chunk_last_node_id = None
    /\ chunk = Chunk
    /\ chunk_start_idx = 0
    /\ atoms_in_chunk = <<>>
    /\ current_scope_atoms = <<>>
    /\ current_scope_node_id = None
    /\ placed = <<>>
    /\ max_line_tokens = None
    /\ line_pc = "idle"
    /\ all_lines = <<>>
    /\ line_chunks = <<>>
    /\ line_i = 0
    /\ line_chunk = LineChunk
    /\ line_chunk_start = 0
    /\ content_lines_added = 0
    /\ line_placed = <<>>
    /\ fail_at = None
    /\ calls = 0
    /\ exception = ""
    /\ added = <<>>
    /\ overlap_call = NoCall
    /\ scope_line_call = NoLine
    /\ earlier = NoResult

\* mutant: a failure of count_tokens is swallowed and the step goes on with
\* the count it would have had
tokenizer_raises_never(n) == FALSE

\* count_tokens raises within the next n calls
tokenizer_raises(n) == fail_at # None /\ fail_at <= calls + n

\* a step that made n count_tokens calls, none of which raised
Counted(n) ==
    /\ ~tokenizer_raises(n)
    /\ calls' = calls + n
    /\ UNCHANGED <<fail_at, exception>>

\* the call with its arguments, lines 12-45: all_atoms = list(serializer);
\* an unknown node type raises, an empty atom list returns [].  The
\* tokenizer's failing call is drawn from failing.
CallWith(failing) ==
    /\ pc = "idle"
    /\ line_pc = "idle"
    /\ fail_at' \in failing
    /\ UNCHANGED calls
    /\ semantic_ir' \in Trees
    /\ tokenizer' \in Tokenizers
    /\ size' \in Sizes
    /\ overlap' \in Overlaps
    /\ include_parent_path' \in BOOLEAN
    /\ LET r == SemanticIRSerializer(semantic_ir')
       IN /\ all_atoms' = r.atoms
          /\ exception' = r.error
          /\ pc' = IF r.error # "" THEN "raised"
                   ELSE IF r.atoms = <<>> THEN "done"
                   ELSE "outer"
    /\ UNCHANGED <<chunks, i, prev_chunk_last_node_id, chunk,
                   chunk_start_idx, atoms_in_chunk, current_scope_atoms,
                   current_scope_node_id, placed>>
    /\ UNCHANGED <<line_vars, unit_vars>>

\* a call with a tokenizer that never raises
Call == CallWith({None})

\* a call with a tokenizer one of whose first MaxFailAt calls raises
FailCall == CallWith(1..MaxFailAt)

\* mutant: one walker is kept between the calls and its node_counter goes on
\* from the last node of the call before
serializer_kept(ir) ==
    SerializeFrom(ir, dfs(ir),
                  IF all_atoms = <<>> THEN 0 ELSE Last(all_atoms).node_id + 1)

\* line 37 with semantic_ir_serializer.py lines 17-24: the walker of a call
\* is a new object, whose node_counter is 0
serializer(ir) == SemanticIRSerializer(ir)

\* a second call, made with the same arguments after the first has returned
\* or raised, lines 12-45: the walker is new (line 37), chunks, i and
\* prev_chunk_last_node_id are assigned (lines 43-45), and the other locals
\* are those of a new frame, in which nothing is bound yet
CallAgain ==
    /\ pc \in {"done", "raised"}
    /\ line_pc = "idle"
    /\ ~earlier.returned
    /\ fail_at' = None
    /\ calls' = 0
    /\ UNCHANGED args
    /\ LET r == serializer(semantic_ir')
       IN /\ all_atoms' = r.atoms
          /\ exception' = r.error
          /\ pc' = IF r.error # "" THEN "raised"
                   ELSE IF r.atoms = <<>> THEN "done"
                   ELSE "outer"
    /\ chunks' = <<>>
    /\ i' = 0
    /\ prev_chunk_last_node_id' = None
    /\ chunk' = Chunk
    /\ chunk_start_idx' = 0
    /\ atoms_in_chunk' = <<>>
    /\ current_scope_atoms' = <<>>
    /\ current_scope_node_id' = None
    /\ placed' = <<>>
    /\ earlier' = [returned |-> TRUE, atoms |-> all_atoms, chunks |-> chunks,
                   exception |-> exception]
    /\ UNCHANGED <<line_vars, added, overlap_call, scope_line_call>>

\* mutant: the breadcrumb is taken from the atom before the cursor
parent_path_of_previous(idx) ==
    IF chunks # <<>> /\ include_parent_path /\ At(idx - 1).chunk_context # ""
    THEN At(idx - 1).chunk_context
    ELSE ""

\* lines 52-53: the breadcrumb a new chunk is given ("" for none)
parent_path(idx) ==
    IF chunks # <<>> /\ include_parent_path /\ At(idx).chunk_context # ""
    THEN At(idx).chunk_context
    ELSE ""

\* count_tokens calls of lines 47-59
BeginChunkCalls == IF parent_path(i) # "" THEN 1 ELSE 0

\* lines 47-59: start of one chunk
BeginChunk ==
    /\ pc = "outer"
    /\ i < Len(all_atoms)
    /\ Counted(BeginChunkCalls)
    /\ LET ctx == parent_path(i)
       IN chunk' = IF ctx # "" THEN add_text(Chunk, ctx, count_tokens(ctx))
                   ELSE Chunk
    /\ chunk_start_idx' = i
    /\ atoms_in_chunk' = <<>>
    /\ current_scope_atoms' = <<>>
    /\ current_scope_node_id' = None
    /\ pc' = "inner"
    /\ UNCHANGED <<args, all_atoms, chunks, i, prev_chunk_last_node_id, placed>>
    /\ UNCHANGED <<line_vars, unit_vars>>

\* mutant: the scope is flushed after every atom, one line per atom
scope_complete_each_atom(c, in_chunk, scope, scope_node_id) ==
    IF scope # <<>>
    THEN LET is_cont == _is_continuation(prev_chunk_last_node_id, scope_node_id,
                                         AtomsAt(scope))
             bc == _build_and_count(AtomsAt(scope), is_cont,
                                    ~At(Last(scope)).is_last_in_node)
         IN [chunk |-> add_text(c, bc.line, bc.tokens),
             atoms_in_chunk |-> in_chunk \o scope,
             current_scope_atoms |-> <<>>]
    ELSE [chunk |-> c, atoms_in_chunk |-> in_chunk,
          current_scope_atoms |-> scope]

\* lines 118-126: flush the scope when its last atom is the node's last
scope_complete(c, in_chunk, scope, scope_node_id) ==
    IF scope # <<>> /\ At(Last(scope)).is_last_in_node
    THEN LET is_cont == _is_continuation(prev_chunk_last_node_id, scope_node_id,
                                         AtomsAt(scope))
             bc == _build_and_count(AtomsAt(scope), is_cont, FALSE)
         IN [chunk |-> add_text(c, bc.line, bc.tokens),
             atoms_in_chunk |-> in_chunk \o scope,
             current_scope_atoms |-> <<>>]
    ELSE [chunk |-> c, atoms_in_chunk |-> in_chunk,
          current_scope_atoms |-> scope]

\* mutant: the speculative line of a first atom is always closed as continued
first_atom_has_more_always(atom) == TRUE

\* lines 81-85: has_more of the speculative line of a node's first atom
first_atom_has_more(atom) == ~atom.is_last_in_node

\* count_tokens calls of one iteration with atom.is_first_in_node: the flush
\* of line 69, the speculative line of line 81, the flush of line 123
ScanFirstAtomCalls ==
    LET atom == At(i)
        flush == current_scope_atoms # <<>>
        fl == _build_and_count(AtomsAt(current_scope_atoms), FALSE, FALSE)
    IN IF flush /\ chunk.text_pieces # <<>> /\ get_tokens(chunk) + fl.tokens > size
       THEN 1
       ELSE LET chunk1 == IF flush THEN add_text(chunk, fl.line, fl.tokens)
                          ELSE chunk
                test == _build_and_count(<<atom>>, FALSE, first_atom_has_more(atom))
            IN (IF flush THEN 1 ELSE 0) + 1
               + (IF chunk1.text_pieces # <<>>
                     /\ get_tokens(chunk1) + test.tokens > size THEN 0
                  ELSE IF atom.is_last_in_node THEN 1 ELSE 0)

\* lines 62-89, 118-126: one iteration of the inner loop, atom.is_first_in_node
ScanFirstAtom ==
    /\ pc = "inner"
    /\ i < Len(all_atoms)
    /\ At(i).is_first_in_node
    /\ Counted(ScanFirstAtomCalls)
    /\ LET atom == At(i)
           flush == current_scope_atoms # <<>>
           fl == _build_and_count(AtomsAt(current_scope_atoms), FALSE, FALSE)
       IN IF flush /\ chunk.text_pieces # <<>> /\ get_tokens(chunk) + fl.tokens > size
          THEN \* line 71: break
               /\ pc' = "close"
               /\ UNCHANGED <<chunk, atoms_in_chunk, current_scope_atoms,
                              current_scope_node_id, i>>
          ELSE LET chunk1 == IF flush THEN add_text(chunk, fl.line, fl.tokens)
                             ELSE chunk
                   in_chunk1 == IF flush THEN atoms_in_chunk \o current_scope_atoms
                                ELSE atoms_in_chunk
                   test == _build_and_count(<<atom>>, FALSE, first_atom_has_more(atom))
               IN IF chunk1.text_pieces # <<>> /\ get_tokens(chunk1) + test.tokens > size
                  THEN \* lines 86-89: backtrack and break
                       /\ i' = i
                       /\ current_scope_atoms' = <<>>
                       /\ current_scope_node_id' = atom.node_id
                       /\ chunk' = chunk1
                       /\ atoms_in_chunk' = in_chunk1
                       /\ pc' = "close"
                  ELSE LET r == scope_complete(chunk1, in_chunk1, <<i>>, atom.node_id)
                       IN /\ i' = i + 1
                          /\ current_scope_node_id' = atom.node_id
                          /\ chunk' = r.chunk
                          /\ atoms_in_chunk' = r.atoms_in_chunk
                          /\ current_scope_atoms' = r.current_scope_atoms
                          /\ pc' = IF i + 1 < Len(all_atoms) THEN "inner" ELSE "close"
    /\ UNCHANGED <<args, all_atoms, chunks, prev_chunk_last_node_id,
                   chunk_start_idx, placed>>
    /\ UNCHANGED <<line_vars, unit_vars>>

\* count_tokens calls of one iteration with an atom that is not the first of
\* its node: the speculative line of line 101, then the closing of line 109
\* or the flush of line 123
ScanNextAtomCalls ==
    LET atom == At(i)
        node_id == IF current_scope_atoms = <<>> THEN atom.node_id
                   ELSE current_scope_node_id
        test_atoms == Append(current_scope_atoms, i)
        is_cont == _is_continuation(prev_chunk_last_node_id, node_id,
                                    AtomsAt(test_atoms))
        test == _build_and_count(AtomsAt(test_atoms), is_cont,
                                 ~atom.is_last_in_node)
    IN 1 + (IF get_tokens(chunk) + test.tokens > size /\ current_scope_atoms # <<>>
            THEN 1
            ELSE IF atom.is_last_in_node THEN 1 ELSE 0)

\* lines 62-64, 91-126: one iteration of the inner loop, atom not first in node
ScanNextAtom ==
    /\ pc = "inner"
    /\ i < Len(all_atoms)
    /\ ~At(i).is_first_in_node
    /\ Counted(ScanNextAtomCalls)
    /\ LET atom == At(i)
           node_id == IF current_scope_atoms = <<>> THEN atom.node_id
                      ELSE current_scope_node_id
           test_atoms == Append(current_scope_atoms, i)
           is_cont == _is_continuation(prev_chunk_last_node_id, node_id,
                                       AtomsAt(test_atoms))
           test == _build_and_count(AtomsAt(test_atoms), is_cont,
                                    ~atom.is_last_in_node)
       IN /\ current_scope_node_id' = node_id
          /\ IF get_tokens(chunk) + test.tokens > size /\ current_scope_atoms # <<>>
             THEN \* lines 107-112: close the scope with continuation, break
                  LET bc == _build_and_count(AtomsAt(current_scope_atoms),
                                             is_cont, TRUE)
                  IN /\ chunk' = add_text(chunk, bc.line, bc.tokens)
                     /\ atoms_in_chunk' = atoms_in_chunk \o current_scope_atoms
                     /\ current_scope_atoms' = <<>>
                     /\ i' = i
                     /\ pc' = "close"
             ELSE LET r == scope_complete(chunk, atoms_in_chunk, test_atoms, node_id)
                  IN /\ i' = i + 1
                     /\ chunk' = r.chunk
                     /\ atoms_in_chunk' = r.atoms_in_chunk
                     /\ current_scope_atoms' = r.current_scope_atoms
                     /\ pc' = IF i + 1 < Len(all_atoms) THEN "inner" ELSE "close"
    /\ UNCHANGED <<args, all_atoms, chunks, prev_chunk_last_node_id,
                   chunk_start_idx, placed>>
    /\ UNCHANGED <<line_vars, unit_vars>>

\* mutant: the overlap start is taken whenever atoms are left, also when it
\* is the chunk's own start
overlap_applies_always(chunk_start, chunk_end) == chunk_end < Len(all_atoms)

\* lines 161-165: overlap back-tracking is applied after this chunk
overlap_applies(chunk_start, chunk_end) ==
    /\ chunk_end < Len(all_atoms)
    /\ _calculate_overlap_start(chunk_start, chunk_end, overlap) > chunk_start

\* mutant: the overlap start is compared with 0 instead of chunk_start_idx
next_start_positive(chunk_start, chunk_end) ==
    IF chunk_end < Len(all_atoms)
       /\ _calculate_overlap_start(chunk_start, chunk_end, overlap) > 0
    THEN _calculate_overlap_start(chunk_start, chunk_end, overlap)
    ELSE chunk_end

\* mutant: ">=" for ">" in line 165, the cursor may return to the chunk's start
next_start_at_or_after(chunk_start, chunk_end) ==
    IF chunk_end < Len(all_atoms)
    THEN _calculate_overlap_start(chunk_start, chunk_end, overlap)
    ELSE chunk_end

\* mutant: the next chunk starts one atom after the end of the chunk
next_start_forward(chunk_start, chunk_end) ==
    IF chunk_end < Len(all_atoms) THEN chunk_end + 1 ELSE chunk_end

\* lines 161-170: the cursor of the next chunk, given the cursor at the end
next_start(chunk_start, chunk_end) ==
    IF overlap_applies(chunk_start, chunk_end)
    THEN _calculate_overlap_start(chunk_start, chunk_end, overlap)
    ELSE chunk_end

\* mutant: the SAFETY block is missing
must_force_never(in_chunk, idx) == FALSE

\* mutant: the SAFETY block runs whenever atoms are left
must_force_always(in_chunk, idx) == idx < Len(all_atoms)

\* lines 146-147: the SAFETY test
must_force(in_chunk, idx) == in_chunk = <<>> /\ idx < Len(all_atoms)

\* count_tokens calls of _calculate_overlap_start: one per atom examined,
\* the atom that ends the loop included
OverlapCalls(chunk_start, chunk_end) ==
    IF chunk_start >= chunk_end THEN 0
    ELSE LET n == OverlapCount(chunk_end - 1, chunk_start, overlap, 0, 0)
         IN IF n + 1 <= chunk_end - chunk_start THEN n + 1
            ELSE chunk_end - chunk_start

\* count_tokens calls of lines 128-170: the incomplete scope (line 133), the
\* SAFETY block (line 149) and the overlap scan (line 162)
EndChunkCalls ==
    LET open == current_scope_atoms # <<>>
        is_cont == _is_continuation(prev_chunk_last_node_id,
                                    current_scope_node_id,
                                    AtomsAt(current_scope_atoms))
        bc == _build_and_count(AtomsAt(current_scope_atoms), is_cont, TRUE)
        add == open /\ (chunk.text_pieces = <<>>
                        \/ get_tokens(chunk) + bc.tokens <= size)
        in_chunk1 == IF add THEN atoms_in_chunk \o current_scope_atoms
                     ELSE atoms_in_chunk
        i1 == IF open /\ ~add THEN i - Len(current_scope_atoms) ELSE i
        force == must_force(in_chunk1, i1)
        i2 == IF force THEN i1 + 1 ELSE i1
    IN (IF open THEN 1 ELSE 0) + (IF force THEN 1 ELSE 0)
       + (IF i2 < Len(all_atoms) THEN OverlapCalls(chunk_start_idx, i2) ELSE 0)

\* lines 128-170: end of one chunk
EndChunk ==
    /\ pc = "close"
    /\ Counted(EndChunkCalls)
    /\ LET \* lines 129-144: incomplete scope at the end of the chunk
           open == current_scope_atoms # <<>>
           is_cont == _is_continuation(prev_chunk_last_node_id,
                                       current_scope_node_id,
                                       AtomsAt(current_scope_atoms))
           bc == _build_and_count(AtomsAt(current_scope_atoms), is_cont, TRUE)
           add == open /\ (chunk.text_pieces = <<>>
                           \/ get_tokens(chunk) + bc.tokens <= size)
           chunk1 == IF add THEN add_text(chunk, bc.line, bc.tokens) ELSE chunk
           in_chunk1 == IF add THEN atoms_in_chunk \o current_scope_atoms
                        ELSE atoms_in_chunk
           i1 == IF open /\ ~add THEN i - Len(current_scope_atoms) ELSE i
           \* lines 146-152: force add one atom
           force == must_force(in_chunk1, i1)
           fb == _build_and_count(<<At(i1)>>, FALSE, ~At(i1).is_last_in_node)
           chunk2 == IF force THEN add_text(chunk1, fb.line, fb.tokens) ELSE chunk1
           in_chunk2 == IF force THEN Append(in_chunk1, i1) ELSE in_chunk1
           i2 == IF force THEN i1 + 1 ELSE i1
           \* lines 154-156
           prev1 == IF in_chunk2 # <<>> THEN At(Last(in_chunk2)).node_id
                    ELSE prev_chunk_last_node_id
           \* lines 160-170
           i3 == next_start(chunk_start_idx, i2)
           prev2 == IF overlap_applies(chunk_start_idx, i2) /\ i3 > 0
                    THEN At(i3 - 1).node_id ELSE prev1
       IN /\ chunk' = chunk2
          /\ atoms_in_chunk' = in_chunk2
          /\ chunks' = Append(chunks, chunk2)
          /\ placed' = Append(placed, [start |-> chunk_start_idx, end |-> i2,
                                       atoms |-> in_chunk2, forced |-> force])
          /\ i' = i3
          /\ prev_chunk_last_node_id' = prev2
          /\ pc' = IF i3 < Len(all_atoms) THEN "outer" ELSE "done"
    /\ UNCHANGED <<args, all_atoms, chunk_start_idx, current_scope_atoms,
                   current_scope_node_id>>
    /\ UNCHANGED <<line_vars, unit_vars>>

(***************************************************************************)
(* chunk_semantic_ir of the line-based module _internal/chunker.py.        *)
(***************************************************************************)
\* the call with its arguments, lines 120-127
LineCall ==
    /\ pc = "idle"
    /\ line_pc = "idle"
    /\ semantic_ir' \in Trees
    /\ tokenizer' \in Tokenizers
    /\ size' \in Sizes
    /\ overlap' \in Overlaps
    /\ include_parent_path' \in BOOLEAN
    /\ max_line_tokens' \in MaxLineTokens
    /\ line_pc' = "collect"
    /\ UNCHANGED <<all_lines, line_chunks, line_i, line_chunk, line_chunk_start,
                   content_lines_added, line_placed>>
    /\ UNCHANGED <<atom_vars, fail_vars, unit_vars>>

\* lines 141-149: max_line_tokens defaults to size; all_lines is collected
CollectLines ==
    /\ line_pc = "collect"
    /\ LET limit == IF max_line_tokens = None THEN size ELSE max_line_tokens
           r == _collect_lines(semantic_ir, limit)
       IN /\ all_lines' = r.lines
          /\ max_line_tokens' = limit
          /\ line_pc' = IF r.error # "" THEN "raised"
                        ELSE IF r.lines = <<>> THEN "done"
                        ELSE "outer"
    /\ UNCHANGED <<line_chunks, line_i, line_chunk, line_chunk_start,
                   content_lines_added, line_placed>>
    /\ UNCHANGED <<args, atom_vars, fail_vars, unit_vars>>

\* lines 160-164: one line per ancestor id of the parent path
RECURSIVE AddParentPath(_, _, _)
AddParentPath(c, path, depth) ==
    IF path = <<>> THEN c
    ELSE LET line == Repeat("  ", depth) \o "- " \o Head(path)
         IN AddParentPath(add_line(c, line, count_tokens(line)), Tail(path),
                          depth + 1)

\* mutant: the parent path is added whatever include_parent_path says
line_parent_path_always(idx) ==
    IF idx > 0 THEN LineAt(idx).path ELSE <<>>

\* lines 157-159: the parent path a new chunk is given
line_parent_path(idx) ==
    IF idx > 0 /\ include_parent_path THEN LineAt(idx).path ELSE <<>>

\* lines 151-164: start of one chunk
LineBeginChunk ==
    /\ line_pc = "outer"
    /\ line_i < Len(all_lines)
    /\ line_chunk' = AddParentPath(LineChunk, line_parent_path(line_i), 0)
    /\ line_chunk_start' = line_i
    /\ content_lines_added' = 0
    /\ line_pc' = "inner"
    /\ UNCHANGED <<max_line_tokens, all_lines, line_chunks, line_i, line_placed>>
    /\ UNCHANGED <<args, atom_vars, fail_vars, unit_vars>>

\* mutant: the size test looks at the chunk before the line is added
line_fits_before(c, tokens) ==
    ~(c.lines # <<>> /\ line_get_tokens(c) > size)

\* line 170: the line is added to a chunk without lines, or when it fits
line_fits(c, tokens) ==
    ~(c.lines # <<>> /\ line_get_tokens(c) + tokens > size)

\* lines 167-174: one iteration of the inner loop
LineScan ==
    /\ line_pc = "inner"
    /\ IF line_i < Len(all_lines)
          /\ line_fits(line_chunk, LineAt(line_i).tokens)
       THEN /\ line_chunk' = add_line(line_chunk, LineAt(line_i).markdown,
                                      LineAt(line_i).tokens)
            /\ content_lines_added' = content_lines_added + 1
            /\ line_i' = line_i + 1
            /\ UNCHANGED line_pc
       ELSE /\ line_pc' = "close"
            /\ UNCHANGED <<line_chunk, content_lines_added, line_i>>
    /\ UNCHANGED <<max_line_tokens, all_lines, line_chunks, line_chunk_start,
                   line_placed>>
    /\ UNCHANGED <<args, atom_vars, fail_vars, unit_vars>>

\* mutant: the overlap start is used without the forced_add test and without
\* the test that it lies after the chunk's start
line_next_start_unguarded(start, chunk_end, forced_add) ==
    IF chunk_end < Len(all_lines)
    THEN _calculate_overlap_start_lines(start, chunk_end, overlap)
    ELSE chunk_end

\* lines 188-197: the cursor of the next chunk
line_next_start(start, chunk_end, forced_add) ==
    IF chunk_end < Len(all_lines) /\ ~forced_add
       /\ _calculate_overlap_start_lines(start, chunk_end, overlap) > start
    THEN _calculate_overlap_start_lines(start, chunk_end, overlap)
    ELSE chunk_end

\* lines 176-197: end of one chunk
LineEndChunk ==
    /\ line_pc = "close"
    /\ LET forced_add == content_lines_added = 0 /\ line_i < Len(all_lines)
           chunk1 == IF forced_add
                     THEN add_line(line_chunk, LineAt(line_i).markdown,
                                   LineAt(line_i).tokens)
                     ELSE line_chunk
           i1 == IF forced_add THEN line_i + 1 ELSE line_i
           i2 == line_next_start(line_chunk_start, i1, forced_add)
       IN /\ line_chunk' = chunk1
          /\ line_chunks' = Append(line_chunks, chunk1)
          /\ line_placed' = Append(line_placed,
                                   [start |-> line_chunk_start, end |-> i1,
                                    forced_add |-> forced_add,
                                    parent_lines |-> Len(chunk1.lines) - (i1 - line_chunk_start)])
          /\ line_i' = i2
          /\ line_pc' = IF i2 < Len(all_lines) THEN "outer" ELSE "done"
    /\ UNCHANGED <<max_line_tokens, all_lines, line_chunk_start, content_lines_added>>
    /\ UNCHANGED <<args, atom_vars, fail_vars, unit_vars>>

\* the count_tokens calls of the step the packer is about to make
StepCalls ==
    IF pc = "outer" THEN BeginChunkCalls
    ELSE IF pc = "inner" /\ At(i).is_first_in_node THEN ScanFirstAtomCalls
    ELSE IF pc = "inner" THEN ScanNextAtomCalls
    ELSE EndChunkCalls

\* a count_tokens call of the step raises: no handler in chunk_semantic_ir,
\* _build_and_count or _calculate_overlap_start, the exception leaves the call
TokenizerRaises ==
    /\ pc \in {"outer", "inner", "close"}
    /\ tokenizer_raises(StepCalls)
    /\ calls' = fail_at
    /\ exception' = "TokenizerError"
    /\ pc' = "raised"
    /\ UNCHANGED <<fail_at, args, all_atoms, chunks, i, prev_chunk_last_node_id,
                   chunk, chunk_start_idx, atoms_in_chunk, current_scope_atoms,
                   current_scope_node_id, placed, line_vars, unit_vars>>

\* the atom-based packer
Next ==
    \/ Call
    \/ BeginChunk
    \/ ScanFirstAtom
    \/ ScanNextAtom
    \/ EndChunk

Spec == Init /\ [][Next]_vars

\* the same packer, for the properties of the chunks' atom ranges and of
\* their scope lines
RangeSpec == Init /\ [][Next]_vars

\* the line-based chunker
LineNext ==
    \/ LineCall
    \/ CollectLines
    \/ LineBeginChunk
    \/ LineScan
    \/ LineEndChunk

LineSpec == Init /\ [][LineNext]_vars

\* a call of either chunker
BothNext ==
    \/ Next
    \/ LineNext

BothSpec == Init /\ [][BothNext]_vars

\* calls of the atom-based packer one after another
RepeatNext ==
    \/ Next
    \/ CallAgain

RepeatSpec == Init /\ [][RepeatNext]_vars

\* the atom-based packer with a tokenizer that raises at one of its calls
FailNext ==
    \/ FailCall
    \/ BeginChunk
    \/ ScanFirstAtom
    \/ ScanNextAtom
    \/ EndChunk
    \/ TokenizerRaises

FailSpec == Init /\ [][FailNext]_vars

(***************************************************************************)
(* The Chunk container of chunker/chunk.py on its own: any sequence of at  *)
(* most MaxCalls add_text calls on one Chunk.                              *)
(***************************************************************************)
Fragments == {"", "- div-1\n", "  - \"Sign in\"\n"}
TokenArgs == {0, 2, 7}

\* chunk.add_text(text, tokens)
AddText ==
    /\ Len(added) < MaxCalls
    /\ \E text \in Fragments, tokens \in TokenArgs :
          /\ chunk' = add_text(chunk, text, tokens)
          /\ added' = Append(added, <<text, tokens>>)
    /\ UNCHANGED <<args, pc, all_atoms, chunks, i, prev_chunk_last_node_id,
                   chunk_start_idx, atoms_in_chunk, current_scope_atoms,
                   current_scope_node_id, placed, line_vars, fail_vars,
                   overlap_call, scope_line_call, earlier>>

ChunkSpec == Init /\ [][AddText]_vars

(***************************************************************************)
(* _calculate_overlap_start on its own, in both versions: a list of at     *)
(* most MaxItems items is set up, then the function is called on a range   *)
(* of it.                                                                  *)
(***************************************************************************)
ItemTokens == {0, 3, 5, 100}
ItemContents == {"", "ok", "hello", "type=\"submit-1\""}
OverlapTokens == {0, 1, 5, 6, 100}

SeqsUpTo(S, n) == UNION { [1..m -> S] : m \in 0..n }

\* all_lines = [("line", tokens, []), ...] as in TestCalculateOverlapStart
SetLines ==
    /\ pc = "idle" /\ line_pc = "idle"
    /\ all_lines = <<>> /\ all_atoms = <<>>
    /\ \E ts \in SeqsUpTo(ItemTokens, MaxItems) \ {<<>>} :
          all_lines' = [k \in DOMAIN ts |->
                          [markdown |-> "line", tokens |-> ts[k], path |-> <<>>]]
    /\ UNCHANGED <<args, atom_vars, fail_vars, unit_vars, max_line_tokens,
                   line_pc, line_chunks, line_i, line_chunk, line_chunk_start,
                   content_lines_added, line_placed>>

\* all_atoms = atoms with the given contents, and a tokenizer
SetAtoms ==
    /\ pc = "idle" /\ line_pc = "idle"
    /\ all_lines = <<>> /\ all_atoms = <<>>
    /\ \E cs \in SeqsUpTo(ItemContents, MaxItems) \ {<<>>} :
          all_atoms' = [k \in DOMAIN cs |->
                          Atom(Tuple7(cs[k], "- x (", "- x (... ", ")", " ...)",
                                      k = 1, k = Len(cs)), "", 0)]
    /\ tokenizer' \in Tokenizers
    /\ UNCHANGED <<semantic_ir, size, overlap, include_parent_path, pc, chunks,
                   i, prev_chunk_last_node_id, chunk, chunk_start_idx,
                   atoms_in_chunk, current_scope_atoms, current_scope_node_id,
                   placed, line_vars, fail_vars, unit_vars>>

\* _calculate_overlap_start(all_lines, chunk_start, chunk_end, overlap_tokens)
\* of _internal/chunker.py
CalculateOverlapStartLines ==
    /\ all_lines # <<>>
    /\ overlap_call = NoCall
    /\ \E cs \in 0..Len(all_lines), ce \in 0..Len(all_lines), ot \in OverlapTokens :
          /\ cs <= ce
          /\ overlap_call' =
                [chunk_start |-> cs, chunk_end |-> ce, overlap_tokens |-> ot,
                 result |-> _calculate_overlap_start_lines(cs, ce, ot),
                 version |-> "lines"]
    /\ UNCHANGED <<args, atom_vars, line_vars, fail_vars, added, scope_line_call,
                   earlier>>

\* _calculate_overlap_start(all_atoms, chunk_start, chunk_end, overlap_tokens,
\* tokenizer) of _internal/chunker/chunker.py
CalculateOverlapStartAtoms ==
    /\ all_atoms # <<>>
    /\ overlap_call = NoCall
    /\ \E cs \in 0..Len(all_atoms), ce \in 0..Len(all_atoms), ot \in OverlapTokens :
          /\ cs <= ce
          /\ overlap_call' =
                [chunk_start |-> cs, chunk_end |-> ce, overlap_tokens |-> ot,
                 result |-> _calculate_overlap_start(cs, ce, ot),
                 version |-> "atoms"]
    /\ UNCHANGED <<args, atom_vars, line_vars, fail_vars, added, scope_line_call,
                   earlier>>

OverlapNext ==
    \/ SetLines
    \/ SetAtoms
    \/ CalculateOverlapStartLines
    \/ CalculateOverlapStartAtoms

OverlapSpec == Init /\ [][OverlapNext]_vars

(***************************************************************************)
(* The walker and the atomizers on their own: list(serializer) on a tree,  *)
(* then _build_scope_line on a run of atoms of one node.  Besides Trees,   *)
(* the trees are one node of any data under a chain of ancestors; texts    *)
(* are made of words and whitespace.                                       *)
(***************************************************************************)
MaxDepth == 2

TextPieces == {"Sign", "in", " ", "  "}
Texts == {Concat(ps) : ps \in SeqsUpTo(TextPieces, MaxWords)}

NodeData ==
    { SemanticElement(e[1], SubSeq(AttrPool, 1, n), e[2]) :
        e \in { <<"button", "button-1">>, <<"span", "">> }, n \in 0..MaxAttrs }
    \cup { SemanticText(t) : t \in Texts }

\* the ancestor at depth j - 1: the first has a tag only, the others a
\* readable id
Ancestor(j) ==
    IF j = 1 THEN SemanticElement("body", <<>>, "")
    ELSE SemanticElement("div", <<>>, "div-" \o ToString(j))

\* a node of the given data at depth d, under d ancestors
ChainTree(d, data) ==
    [data |-> [k \in 1..(d + 1) |-> IF k <= d THEN Ancestor(k) ELSE data],
     children |-> [k \in 1..(d + 1) |-> IF k <= d THEN <<k + 1>> ELSE <<>>]]

NodeTrees == {ChainTree(d, data) : d \in 0..MaxDepth, data \in NodeData}

\* all_atoms = list(SemanticIRSerializer(semantic_ir))
Serialize ==
    /\ pc = "idle" /\ line_pc = "idle"
    /\ semantic_ir = NoTree
    /\ all_atoms = <<>> /\ all_lines = <<>>
    /\ semantic_ir' \in Trees \cup NodeTrees
    /\ LET r == SemanticIRSerializer(semantic_ir')
       IN /\ all_atoms' = r.atoms
          /\ exception' = r.error
    /\ UNCHANGED <<tokenizer, size, overlap, include_parent_path, pc, chunks, i,
                   prev_chunk_last_node_id, chunk, chunk_start_idx,
                   atoms_in_chunk, current_scope_atoms, current_scope_node_id,
                   placed, line_vars, fail_at, calls, unit_vars>>

\* _build_scope_line(all_atoms[first:last + 1], is_continuation, has_more) on
\* atoms of one node
BuildScopeLine ==
    /\ all_atoms # <<>>
    /\ scope_line_call = NoLine
    /\ \E first \in 0..(Len(all_atoms) - 1), last \in 0..(Len(all_atoms) - 1),
          is_continuation \in BOOLEAN, has_more \in BOOLEAN :
          /\ first <= last
          /\ At(first).node_id = At(last).node_id
          /\ scope_line_call' =
                [first |-> first, last |-> last,
                 is_continuation |-> is_continuation, has_more |-> has_more,
                 line |-> _build_scope_line(
                              [n \in 1..(last - first + 1) |-> At(first + n - 1)],
                              is_continuation, has_more)]
    /\ UNCHANGED <<args, atom_vars, line_vars, fail_vars, added, overlap_call,
                   earlier>>

SerializeNext ==
    \/ Serialize
    \/ BuildScopeLine

SerializeSpec == Init /\ [][SerializeNext]_vars

(***************************************************************************)
(* _collect_lines of the line-based module alone, for any limit.           *)
(***************************************************************************)
\* values of max_line_tokens, among them limits below the cost of "..."
LineLimits == {0, 1, 2, 3, 4, 10, 30}

\* a caller of _collect_lines with its arguments, lines 43-47
CollectCall ==
    /\ pc = "idle"
    /\ line_pc = "idle"
    /\ semantic_ir = NoTree
    /\ semantic_ir' \in Trees \cup NodeTrees
    /\ tokenizer' \in Tokenizers
    /\ max_line_tokens' \in LineLimits
    /\ line_pc' = "collect alone"
    /\ UNCHANGED <<size, overlap, include_parent_path, all_lines, line_chunks,
                   line_i, line_chunk, line_chunk_start, content_lines_added,
                   line_placed>>
    /\ UNCHANGED <<atom_vars, fail_vars, unit_vars>>

\* _internal/chunker.py lines 57-80: the body of _collect_lines
CollectLinesAlone ==
    /\ line_pc = "collect alone"
    /\ LET r == _collect_lines(semantic_ir, max_line_tokens)
       IN /\ all_lines' = r.lines
          /\ exception' = r.error
          /\ line_pc' = IF r.error # "" THEN "raised" ELSE "collected"
    /\ UNCHANGED <<max_line_tokens, line_chunks, line_i, line_chunk,
                   line_chunk_start, content_lines_added, line_placed,
                   fail_at, calls>>
    /\ UNCHANGED <<args, atom_vars, unit_vars>>

CollectNext ==
    \/ CollectCall
    \/ CollectLinesAlone

CollectSpec == Init /\ [][CollectNext]_vars

(***************************************************************************)
(* Properties.                                                             *)
(***************************************************************************)
Returned == pc = "done"
NumAtoms == Len(all_atoms)
Range(f) == {f[k] : k \in DOMAIN f}

\* The distance to the return: the atoms at or after the start of the current
\* (or coming) chunk weigh NumAtoms + 3 each, plus what is left of the chunk.
Variant ==
    LET chunk_start == IF pc = "outer" THEN i ELSE chunk_start_idx
        phase == IF pc = "outer" THEN NumAtoms + 2
                 ELSE IF pc = "inner" THEN NumAtoms - i + 1
                 ELSE 0
    IN IF pc \in {"outer", "inner", "close"}
       THEN (NumAtoms - chunk_start) * (NumAtoms + 3) + phase
       ELSE 0

Running == pc \in {"outer", "inner", "close"}

\* C1: the packer terminates on every atom stream, budget, overlap and
\* tokenizer (also when one atom's line alone exceeds the budget): every step
\* of the loops strictly decreases a non-negative distance to the return and
\* a running call always has a next step; it never holds more chunks than
\* there are atoms.
C1_TerminatesWithAtMostNChunks ==
    /\ [][Running => (Variant' < Variant /\ Variant' >= 0)]_vars
    /\ [](Running => ENABLED Next)
    /\ [](Len(chunks) <= NumAtoms)

\* an oversized single atom was packed and the call still returned
C1_Witness ==
    /\ Returned
    /\ Len(chunks) >= 2
    /\ \E k \in 1..Len(chunks) :
          /\ Len(placed[k].atoms) = 1
          /\ get_tokens(chunks[k]) > size
          /\ count_tokens(_build_scope_line(AtomsAt(placed[k].atoms), FALSE, FALSE)) > size

\* C2: every chunk after the first starts at an index strictly greater than
\* the start of the chunk before it, and the cursor handed to the next chunk
\* is strictly beyond the start of the chunk just finalized.
C2_StartsStrictlyIncrease ==
    /\ \A k \in 2..Len(placed) : placed[k].start > placed[k - 1].start
    /\ (pc = "outer" /\ placed # <<>>) => i > Last(placed).start

\* overlap moved the cursor back into the previous chunk, yet beyond its start
C2_Witness ==
    /\ Len(placed) >= 2
    /\ placed[2].start < placed[1].end
    /\ placed[2].start > placed[1].start

\* the chunks k (1-based) whose atoms_in_chunk holds atom index j
ChunksHolding(j) == {k \in 1..Len(placed) : j \in Range(placed[k].atoms)}

\* C3: with overlap = 0 the returned chunks partition the atom stream: every
\* atom index is in exactly one chunk, zero-cost atoms included.
C3_PartitionAtOverlapZero ==
    (Returned /\ overlap = 0) =>
        \A j \in 0..(NumAtoms - 1) : Cardinality(ChunksHolding(j)) = 1

(***************************************************************************)
(* Reading a finished chunk: its atoms, the nodes they belong to and the   *)
(* line of each node.                                                      *)
(***************************************************************************)
AtomsOf(k) == placed[k].atoms
FirstAtomOf(k) == At(AtomsOf(k)[1])
NodesIn(k) == {At(j).node_id : j \in Range(AtomsOf(k))}

\* the atoms of node x placed in chunk k, in order
RunOf(k, x) == SelectSeq(AtomsOf(k), LAMBDA j : At(j).node_id = x)

\* chunk k has a breadcrumb piece in front of its scope lines
HasBreadcrumb(k) == Len(chunks[k].text_pieces) > Cardinality(NodesIn(k))

\* one piece per node after the optional breadcrumb
OneLinePerNode(k) ==
    Len(chunks[k].text_pieces) - Cardinality(NodesIn(k)) \in {0, 1}

\* the rendered line of node x in chunk k
LineOf(k, x) ==
    chunks[k].text_pieces[Len(chunks[k].text_pieces) - Cardinality(NodesIn(k))
                          + Cardinality({y \in NodesIn(k) : y <= x})]

\* the line carries the node's continuation opener / closer (a node whose two
\* openers, or two closers, are the same string has no marker to carry)
OpensAsContinuation(line, a) ==
    a.line_start_cont # a.line_start_first /\ StartsWith(line, a.line_start_cont)
ClosesAsContinuation(line, a) ==
    a.line_end_cont # a.line_end_complete /\ EndsWith(line, a.line_end_cont \o "\n")
OpensAsFirst(line, a) ==
    StartsWith(line, a.line_start_first) /\ ~OpensAsContinuation(line, a)
ClosesAsComplete(line, a) ==
    EndsWith(line, a.line_end_complete \o "\n") /\ ~ClosesAsContinuation(line, a)

\* C4: with include_parent_path, the text of every chunk after the first
\* begins with exactly the chunk_context of the first atom placed in it,
\* immediately followed by that atom's scope line; the first chunk begins
\* with its first atom's scope line, without a breadcrumb.
C4_BreadcrumbOfFirstAtom ==
    \A k \in 1..Len(chunks) :
        LET a == FirstAtomOf(k)
            text == markdown(chunks[k])
            crumb == IF k > 1 /\ include_parent_path THEN a.chunk_context ELSE ""
        IN /\ \/ StartsWith(text, crumb \o a.line_start_first)
              \/ StartsWith(text, crumb \o a.line_start_cont)
           /\ crumb # "" => chunks[k].text_pieces[1] = crumb
           /\ k = 1 => ~HasBreadcrumb(k)

\* a later chunk that starts below the root and carries its breadcrumb
C4_Witness ==
    /\ include_parent_path
    /\ Len(chunks) >= 2
    /\ \E k \in 2..Len(chunks) :
          /\ FirstAtomOf(k).chunk_context # ""
          /\ HasBreadcrumb(k)
          /\ FirstAtomOf(k).chunk_context # At(AtomsOf(k)[1] - 1).chunk_context

\* the nodes with atoms both in chunk k and in chunk k + 1
SharedNodes(k) == NodesIn(k) \cap NodesIn(k + 1)

\* C5 as claimed: for consecutive chunks and every node with atoms in both, the
\* earlier chunk's line of the node ends with the continuation closer and the
\* later chunk's line begins with the continuation opener.
C5_MarkersOnEverySharedNode ==
    \A k \in 1..(Len(chunks) - 1) : \A x \in SharedNodes(k) :
        LET a == At(RunOf(k, x)[1])
        IN /\ EndsWith(LineOf(k, x), a.line_end_cont \o "\n")
           /\ StartsWith(LineOf(k + 1, x), a.line_start_cont)

\* C5 amended: for consecutive chunks and every node with atoms in both, the
\* earlier chunk's line ends with the continuation closer exactly when the
\* earlier chunk does not hold the node's last atom, and the later chunk's
\* line begins with the continuation opener exactly when the later chunk does
\* not hold the node's first atom; otherwise that side is rendered complete.
C5_MarkersMatchTheCut ==
    \A k \in 1..(Len(chunks) - 1) : \A x \in SharedNodes(k) :
        LET last_before == At(Last(RunOf(k, x)))
            first_after == At(RunOf(k + 1, x)[1])
        IN /\ OneLinePerNode(k) /\ OneLinePerNode(k + 1)
           /\ IF last_before.is_last_in_node
              THEN ClosesAsComplete(LineOf(k, x), last_before)
              ELSE EndsWith(LineOf(k, x), last_before.line_end_cont \o "\n")
           /\ IF first_after.is_first_in_node
              THEN OpensAsFirst(LineOf(k + 1, x), first_after)
              ELSE StartsWith(LineOf(k + 1, x), first_after.line_start_cont)

\* a node cut at a chunk boundary, with both markers
C5_Witness ==
    \E k \in 1..(Len(chunks) - 1) : \E x \in SharedNodes(k) :
        /\ ~At(Last(RunOf(k, x))).is_last_in_node
        /\ ~At(RunOf(k + 1, x)[1]).is_first_in_node
        /\ ClosesAsContinuation(LineOf(k, x), At(Last(RunOf(k, x))))
        /\ OpensAsContinuation(LineOf(k + 1, x), At(RunOf(k + 1, x)[1]))

RECURSIVE SumTokens(_)
SumTokens(pieces) ==
    IF pieces = <<>> THEN 0
    ELSE count_tokens(Head(pieces)) + SumTokens(Tail(pieces))

\* C6 as claimed: the reported token count of every returned chunk is
\* count_tokens of the chunk's rendered text, for every tokenizer.
C6_TokensOfRenderedText ==
    \A k \in 1..Len(chunks) :
        get_tokens(chunks[k]) = count_tokens(markdown(chunks[k]))

\* C6 amended: the reported token count is the sum of count_tokens over the
\* chunk's fragments (breadcrumb and every rendered scope line, markers
\* included); it is count_tokens of the rendered text when the tokenizer is
\* additive over the fragments, as the character count is.
C6_TokensOfFragments ==
    /\ \A k \in 1..Len(chunks) :
          /\ get_tokens(chunks[k]) = SumTokens(chunks[k].text_pieces)
          /\ tokenizer = "chars" =>
                get_tokens(chunks[k]) = count_tokens(markdown(chunks[k]))
    /\ get_tokens(chunk) = SumTokens(chunk.text_pieces)

\* a returned chunk with a breadcrumb and a continuation marker, counted
C6_Witness ==
    /\ Returned
    /\ \E k \in 2..Len(chunks) :
          /\ HasBreadcrumb(k)
          /\ OpensAsContinuation(chunks[k].text_pieces[2], FirstAtomOf(k))
          /\ get_tokens(chunks[k]) = SumTokens(chunks[k].text_pieces)
          /\ get_tokens(chunks[k]) > 0

\* the breadcrumb piece of chunk k counts, the rest are scope lines
ScopeLinesOf(k) ==
    IF HasBreadcrumb(k) THEN Tail(chunks[k].text_pieces) ELSE chunks[k].text_pieces

\* C7: every chunk holds at least one content atom and at least one scope
\* line, so none is empty or a bare breadcrumb; when nothing was added to a
\* chunk before its end, exactly one atom is force-added and the cursor
\* advances by one; a call on a tree (at least one node) returns at least one
\* chunk, of positive token count.
C7_ForcedProgress ==
    /\ [](\A k \in 1..Len(chunks) :
             /\ AtomsOf(k) # <<>>
             /\ placed[k].end = placed[k].start + Len(AtomsOf(k))
             /\ OneLinePerNode(k)
             /\ ScopeLinesOf(k) # <<>>
             /\ get_tokens(chunks[k]) > 0)
    /\ [](Returned => Len(chunks) >= 1)
    /\ [][(pc = "close" /\ atoms_in_chunk = <<>> /\ current_scope_atoms = <<>>)
            => /\ Last(placed').atoms = <<i>>
               /\ Last(placed').end = i + 1
               /\ Len(Last(chunks').text_pieces) = Len(chunk.text_pieces) + 1]_vars

\* a chunk was given its only atom by the forced add, after its breadcrumb
\* had been placed and the atom's line did not fit
C7_Witness ==
    \E k \in 2..Len(chunks) :
        /\ HasBreadcrumb(k)
        /\ Len(AtomsOf(k)) = 1
        /\ get_tokens(chunks[k]) > size
        /\ FirstAtomOf(k).is_first_in_node
        /\ placed[k].end < NumAtoms

(***************************************************************************)
(* The unsplit rendering of the tree (SemanticIR.serialize_to_markdown,    *)
(* one line per node) and what the packer measures of it.                  *)
(***************************************************************************)
RECURSIVE SumOver(_, _)
SumOver(S, f) ==
    IF S = {} THEN 0
    ELSE LET x == CHOOSE y \in S : TRUE IN f[x] + SumOver(S \ {x}, f)

MaxOver(S) == CHOOSE m \in S : \A y \in S : y <= m

\* the line of the v-th visited node in the unsplit rendering
UnsplitLine(v) ==
    Repeat("  ", v.depth) \o "- " \o to_markdown(semantic_ir.data[v.node]) \o "\n"

\* token count of all rendered lines of the tree
FullTokens ==
    LET visits == dfs(semantic_ir)
    IN SumOver(DOMAIN visits, [n \in DOMAIN visits |-> count_tokens(UnsplitLine(visits[n]))])

AllNodeIds == {all_atoms[n].node_id : n \in DOMAIN all_atoms}
NodeAtoms(x) == SelectSeq(all_atoms, LAMBDA a : a.node_id = x)

\* the costliest line the packer measures for node x when the node is read
\* from its first atom: a leading run of its atoms, closed as continued
\* unless the run is the whole node
WorstLineTokens(x) ==
    LET atoms == NodeAtoms(x)
    IN MaxOver({count_tokens(_build_scope_line(SubSeq(atoms, 1, n), FALSE, n < Len(atoms)))
                  : n \in 1..Len(atoms)})

WorstTokens == SumOver(AllNodeIds, [x \in AllNodeIds |-> WorstLineTokens(x)])

\* one chunk holds every atom and no line has a continuation marker
OneCompleteChunk ==
    /\ Len(chunks) = 1
    /\ AtomsOf(1) = [n \in 1..NumAtoms |-> n - 1]
    /\ \A x \in NodesIn(1) :
          /\ OpensAsFirst(LineOf(1, x), At(RunOf(1, x)[1]))
          /\ ClosesAsComplete(LineOf(1, x), At(Last(RunOf(1, x))))

DivOnly == [data |-> <<SemanticElement("div", <<>>, "div-1")>>, children |-> << <<>> >>]

\* C8 as claimed: when the unsplit rendering of the whole tree fits the
\* budget, exactly one chunk is returned, with every atom and no
\* continuation marker.
C8_FitsMeansOneChunk ==
    (Returned /\ FullTokens <= size) => OneCompleteChunk

\* C8 amended: when the tree fits the budget with every node's line counted
\* in the costliest form the packer measures (a leading run of the node's
\* atoms closed with the continuation terminator, or the complete line),
\* exactly one chunk is returned, with every atom and no continuation marker;
\* the single element div-1 with budget 100 gives the one chunk "- div-1".
C8_WorstCaseFitsMeansOneChunk ==
    /\ (Returned /\ WorstTokens <= size) => OneCompleteChunk
    /\ (Returned /\ semantic_ir = DivOnly /\ size = 100) =>
          /\ Len(chunks) = 1
          /\ markdown(chunks[1]) = "- div-1\n"

\* a tree of several nodes, one of them with several atoms, fits and is
\* returned as one chunk
C8_Witness ==
    /\ Returned
    /\ WorstTokens <= size
    /\ Cardinality(AllNodeIds) >= 2
    /\ NumAtoms > Cardinality(AllNodeIds)
    /\ OneCompleteChunk

ButtonOnly ==
    [data |-> <<SemanticElement("button", SubSeq(AttrPool, 1, MaxAttrs), "button-1")>>,
     children |-> << <<>> >>]

\* C9: a scope line is closed with the continuation terminator when the last
\* atom of its run is not the node's last atom, and with the complete
\* terminator (not the continuation one) when it is.  The element button-1
\* alone, whose attributes do not fit a budget of 40 characters, gives at
\* least two chunks, the first line ending in " ...)", the last in ")" and
\* not in "...)".
C9_ClosingFollowsLastAtom ==
    /\ \A k \in 1..Len(chunks) : \A x \in NodesIn(k) :
          LET a == At(Last(RunOf(k, x)))
          IN IF a.is_last_in_node
             THEN ClosesAsComplete(LineOf(k, x), a)
             ELSE ClosesAsContinuation(LineOf(k, x), a)
    /\ (Returned /\ semantic_ir = ButtonOnly /\ size = 40 /\ tokenizer = "chars") =>
          /\ Len(chunks) >= 2
          /\ \A k \in 1..(Len(chunks) - 1) : EndsWith(markdown(chunks[k]), " ...)\n")
          /\ EndsWith(markdown(Last(chunks)), ")\n")
          /\ ~EndsWith(markdown(Last(chunks)), "...)\n")

\* button-1 was split over chunks under budget 40
C9_Witness ==
    /\ Returned /\ semantic_ir = ButtonOnly /\ size = 40 /\ tokenizer = "chars"
    /\ Len(chunks) >= 2
    /\ EndsWith(markdown(chunks[1]), " ...)\n")
    /\ At(Last(AtomsOf(Len(chunks)))).is_last_in_node

\* the atoms of chunk k at or after the start of chunk k + 1
OverlapWindow(k) == {j \in Range(AtomsOf(k)) : j >= placed[k + 1].start}

\* C10: with overlap > 0, the atoms of a chunk that the next chunk starts at
\* or before (its trailing overlap window) have content-token costs that sum
\* to at most overlap, and no atom of the chunk before that window is in any
\* later chunk.
C10_RepeatsOnlyInOverlapWindow ==
    overlap > 0 =>
        \A k \in 1..(Len(placed) - 1) :
            /\ SumOver(OverlapWindow(k),
                       [j \in OverlapWindow(k) |-> count_tokens(At(j).content)]) <= overlap
            /\ \A j \in Range(AtomsOf(k)) \ OverlapWindow(k) :
                  \A m \in (k + 1)..Len(placed) : j \notin Range(AtomsOf(m))

\* atoms of positive cost were repeated in the next chunk
C10_Witness ==
    /\ overlap > 0
    /\ \E k \in 1..(Len(placed) - 1) :
          /\ Cardinality(OverlapWindow(k)) >= 2
          /\ Cardinality(OverlapWindow(k)) < Len(AtomsOf(k))
          /\ \A j \in OverlapWindow(k) :
                count_tokens(At(j).content) > 0 /\ j \in Range(AtomsOf(k + 1))

(***************************************************************************)
(* C11                                                                     *)
(***************************************************************************)
SharedAtoms(k) == Range(AtomsOf(k)) \cap Range(AtomsOf(k + 1))

\* C11: for body-1 with five attribute-less leaf children, the character
\* tokenizer, size = 25 and overlap = 10, every two adjacent chunks have an
\* atom placed in both of them whose line is rendered identically in both,
\* and the chunk start indices strictly increase.
C11_AdjacentChunksShareAnAtom ==
    (/\ Returned
     /\ semantic_ir = SiblingsTree(NumSiblings)
     /\ tokenizer = "chars" /\ size = 25 /\ overlap = 10) =>
        /\ \A k \in 1..(Len(placed) - 1) :
              \E j \in SharedAtoms(k) :
                 LineOf(k, At(j).node_id) = LineOf(k + 1, At(j).node_id)
        /\ \A k \in 1..(Len(placed) - 1) : placed[k].start < placed[k + 1].start

(***************************************************************************)
(* C12                                                                     *)
(***************************************************************************)
LineReturned == line_pc = "done"

\* chunk k of the atom-based packer was completed by a forced add: the SAFETY
\* block ran, or a line was added that did not fit the budget
AtomForced(k) == placed[k].forced \/ get_tokens(chunks[k]) > size

\* the same for the line-based chunker
LineForced(k) ==
    line_placed[k].forced_add \/ line_get_tokens(line_chunks[k]) > size

\* C12: after a chunk completed by a forced add the next chunk starts exactly
\* at that chunk's exclusive end index, in the atom-based packer and in the
\* line-based chunker, so the force-added item is in no later chunk.
C12_NoOverlapAfterForcedAdd ==
    /\ \A k \in 1..(Len(placed) - 1) :
          AtomForced(k) =>
             /\ placed[k + 1].start = placed[k].end
             /\ \A m \in (k + 1)..Len(placed) :
                   Range(AtomsOf(k)) \cap Range(AtomsOf(m)) = {}
    /\ \A k \in 1..(Len(line_placed) - 1) :
          LineForced(k) =>
             /\ line_placed[k + 1].start = line_placed[k].end
             /\ \A m \in (k + 1)..Len(line_placed) :
                   line_placed[m].start >= line_placed[k].end

\* the line-based chunker force-added a line that the overlap budget could
\* hold, and went on to another chunk
C12_Witness ==
    \E k \in 1..(Len(line_placed) - 1) :
       /\ line_placed[k].forced_add
       /\ overlap > 0
       /\ LineAt(line_placed[k].end - 1).tokens <= overlap

(***************************************************************************)
(* C13                                                                     *)
(***************************************************************************)
HasUnknownNode(ir) == \E n \in DOMAIN ir.data : ir.data[n].kind = "other"

\* C13: when the tree holds a node whose data is neither an element nor a
\* text, the call of the atom-based chunk_semantic_ir ends by raising
\* (ValueError) before any chunk exists: it never returns a list, and no
\* chunk is ever built.
C13_UnknownNodeRaises ==
    (pc # "idle" /\ HasUnknownNode(semantic_ir)) =>
        /\ pc = "raised"
        /\ chunks = <<>>
        /\ all_atoms = <<>>
        /\ ~ENABLED Next

\* the call raised for a tree whose root and first child are well-formed and
\* whose last node is of unknown type
C13_Witness ==
    /\ pc = "raised"
    /\ Len(semantic_ir.data) >= 3
    /\ semantic_ir.data[1].kind = "element"
    /\ semantic_ir.data[2].kind # "other"
    /\ semantic_ir.data[Len(semantic_ir.data)].kind = "other"

(***************************************************************************)
(* C14                                                                     *)
(***************************************************************************)
\* C14: when a count_tokens call of the packing (breadcrumb measurement,
\* speculative fit check, scope flush or overlap scan) raises, the step that
\* made the call ends the whole call with that exception and builds nothing
\* more; no count_tokens call follows the failing one, and a chunk list is
\* returned only if the failing call was never made.
C14_TokenizerFailurePropagates ==
    /\ [](pc # "idle" =>
            /\ fail_at # None
            /\ calls <= fail_at
            /\ (calls = fail_at =>
                  pc = "raised" /\ exception = "TokenizerError" /\ ~ENABLED FailNext)
            /\ (pc = "done" => calls < fail_at /\ exception = ""))
    /\ [][(Running /\ tokenizer_raises(StepCalls)) =>
             /\ pc' = "raised"
             /\ exception' = "TokenizerError"
             /\ calls' = fail_at
             /\ chunks' = chunks /\ chunk' = chunk]_vars

\* the tokenizer raised when a chunk was already finished and the next one
\* was partly filled
C14_Witness ==
    /\ pc = "raised"
    /\ exception = "TokenizerError"
    /\ chunks # <<>>
    /\ chunk.text_pieces # <<>>
    /\ atoms_in_chunk # <<>>

(***************************************************************************)
(* C15                                                                     *)
(***************************************************************************)
\* the fragments of added[1..n] written one after the other
RECURSIVE FragmentsUpTo(_)
FragmentsUpTo(n) == IF n = 0 THEN "" ELSE FragmentsUpTo(n - 1) \o added[n][1]

RECURSIVE TokensUpTo(_)
TokensUpTo(n) == IF n = 0 THEN 0 ELSE TokensUpTo(n - 1) + added[n][2]

\* C15: after any sequence of add_text(fragment, tokens) calls on a Chunk,
\* get_tokens() is the sum of the tokens arguments, text_pieces holds the
\* fragments in call order, and to_markdown() is the fragments written one
\* after the other with nothing between them; an empty Chunk has 0 tokens
\* and empty text.
C15_ChunkIsAppendOnly ==
    /\ get_tokens(chunk) = TokensUpTo(Len(added))
    /\ Len(chunk.text_pieces) = Len(added)
    /\ \A k \in 1..Len(added) : chunk.text_pieces[k] = added[k][1]
    /\ markdown(chunk) = FragmentsUpTo(Len(added))
    /\ Len(markdown(chunk)) = SumOver(1..Len(added),
                                     [k \in 1..Len(added) |-> Len(added[k][1])])
    /\ (added = <<>> => get_tokens(chunk) = 0 /\ markdown(chunk) = "")

\* three calls with different fragments, one of them empty, and token
\* arguments that are not the fragments' lengths
C15_Witness ==
    /\ Len(added) = 3
    /\ added[1][1] # added[2][1] /\ added[2][1] = "" /\ added[3][1] # ""
    /\ added[1][2] = 7 /\ added[2][2] = 2 /\ added[3][2] = 0
    /\ get_tokens(chunk) = 9

(***************************************************************************)
(* C16                                                                     *)
(***************************************************************************)
\* the text pieces of chunk k are the scope lines of the nodes whose atoms
\* were placed in it, one per node in node order, and nothing else
OnlyLinesOfPlacedAtoms(k) ==
    /\ Len(chunks[k].text_pieces) = Cardinality(NodesIn(k))
    /\ \A x \in NodesIn(k) :
          \E is_cont \in BOOLEAN, has_more \in BOOLEAN :
             LineOf(k, x) = _build_scope_line(AtomsAt(RunOf(k, x)), is_cont, has_more)

\* the lines of chunk k of the line-based chunker are the tree lines of its
\* range and nothing else
OnlyLinesOfRange(k) ==
    /\ line_placed[k].parent_lines = 0
    /\ line_chunks[k].lines =
          [n \in 1..(line_placed[k].end - line_placed[k].start) |->
             <<LineAt(line_placed[k].start + n - 1).markdown,
               LineAt(line_placed[k].start + n - 1).tokens>>]

\* C16: with include_parent_path = False no chunk is given a breadcrumb: the
\* text of every chunk is made of the lines of the atoms (atom-based packer)
\* or of the tree lines (line-based chunker) placed in that chunk and of
\* nothing else, so the root's line is only in chunks whose range holds the
\* root.
C16_NoBreadcrumbWhenDisabled ==
    ~include_parent_path =>
        /\ \A k \in 1..Len(placed) : OnlyLinesOfPlacedAtoms(k)
        /\ \A k \in 1..Len(line_placed) : OnlyLinesOfRange(k)
        /\ \A k \in 1..Len(line_placed) :
              line_placed[k].start > 0 =>
                 \A n \in 1..Len(line_chunks[k].lines) :
                    line_chunks[k].lines[n][1] # LineAt(0).markdown

\* the line-based chunker, with include_parent_path = False, finished a
\* second chunk that starts at a line with ancestors
C16_Witness ==
    /\ ~include_parent_path
    /\ Len(line_placed) >= 2
    /\ LineAt(line_placed[2].start).path # <<>>
    /\ line_placed[2].start > 0

(***************************************************************************)
(* C17                                                                     *)
(***************************************************************************)
ContentLines(k) == line_placed[k].end - line_placed[k].start

ParentPathTokens(k) ==
    SumOver(1..line_placed[k].parent_lines,
            [n \in 1..line_placed[k].parent_lines |-> line_chunks[k].lines[n][2]])

ItemCost(j) ==
    IF overlap_call.version = "lines" THEN LineAt(j).tokens
    ELSE count_tokens(At(j).content)

\* the costs of the n trailing items of the call's range, summed
TrailingCost(n) ==
    SumOver((overlap_call.chunk_end - n)..(overlap_call.chunk_end - 1),
            [j \in (overlap_call.chunk_end - n)..(overlap_call.chunk_end - 1) |->
               ItemCost(j)])

\* the largest number of trailing items of the range that fit the budget
LargestFit ==
    MaxOver({n \in 0..(overlap_call.chunk_end - overlap_call.chunk_start) :
               TrailingCost(n) <= overlap_call.overlap_tokens})

\* C18: _calculate_overlap_start(items, chunk_start, chunk_end, overlap_tokens)
\* returns chunk_end - k, k the largest number of trailing items of
\* [chunk_start, chunk_end) whose costs sum to at most overlap_tokens (line
\* tokens in the line-based version, content tokens in the atom-based one);
\* the result lies in [chunk_start, chunk_end], is chunk_end when the last
\* item alone costs more than overlap_tokens, and chunk_start when the whole
\* range fits.
C18_OverlapStartIsLargestFit ==
    overlap_call.version # "" =>
        LET cs == overlap_call.chunk_start
            ce == overlap_call.chunk_end
            ot == overlap_call.overlap_tokens
            r == overlap_call.result
        IN /\ r = ce - LargestFit
           /\ cs <= r /\ r <= ce
           /\ (cs < ce /\ ItemCost(ce - 1) > ot) => r = ce
           /\ TrailingCost(ce - cs) <= ot => r = cs

\* a call of the atom-based version on a range of three atoms of which
\* exactly the last two fit the budget
C18_Witness ==
    /\ overlap_call.version = "atoms"
    /\ overlap_call.chunk_end - overlap_call.chunk_start = 3
    /\ overlap_call.result = overlap_call.chunk_end - 2
    /\ ItemCost(overlap_call.chunk_end - 1) > 0
    /\ ItemCost(overlap_call.chunk_end - 2) > 0

(***************************************************************************)
(* C19                                                                     *)
(***************************************************************************)
\* C19: in the atom-based packer a chunk's token total (breadcrumb plus
\* scope lines) exceeds size only if the chunk holds exactly one atom; every
\* chunk of two or more atoms has a total of at most size.
C19_OverBudgetOnlyWithOneAtom ==
    \A k \in 1..Len(placed) :
       /\ Len(AtomsOf(k)) >= 2 => get_tokens(chunks[k]) <= size
       /\ get_tokens(chunks[k]) > size => Len(AtomsOf(k)) = 1

\* one chunk of a single atom is over the budget and another chunk of
\* several atoms fills the budget to within 5 tokens
C19_Witness ==
    /\ \E k \in 1..Len(placed) :
          get_tokens(chunks[k]) > size /\ Len(AtomsOf(k)) = 1
    /\ \E m \in 1..Len(placed) :
          /\ Len(AtomsOf(m)) >= 2
          /\ get_tokens(chunks[m]) <= size
          /\ get_tokens(chunks[m]) + 5 > size

(***************************************************************************)
(* C20                                                                     *)
(***************************************************************************)
\* the number of trailing atoms of [s, e) whose content costs fit overlap
AtomFitCount(s, e) ==
    MaxOver({n \in 0..(e - s) :
               SumOver((e - n)..(e - 1),
                       [j \in (e - n)..(e - 1) |-> count_tokens(At(j).content)])
                  <= overlap})

\* the number of trailing lines of [s, e) whose tokens fit overlap
LineFitCount(s, e) ==
    MaxOver({n \in 0..(e - s) :
               SumOver((e - n)..(e - 1),
                       [j \in (e - n)..(e - 1) |-> LineAt(j).tokens])
                  <= overlap})

\* the start the rule gives the chunk after [s, e), count trailing items fit
StartAfter(s, e, count) == IF e - count > s THEN e - count ELSE e

\* C20: after a chunk over [start, end) that is not the last one, with count
\* the number of trailing items that fit the overlap budget, the next chunk
\* starts at end - count if that is strictly greater than start and at end
\* otherwise, in both chunkers; when every item of the chunk fits the
\* budget no overlap is applied.
C20_NextStartRule ==
    /\ \A k \in 1..(Len(placed) - 1) :
          LET s == placed[k].start
              e == placed[k].end
          IN /\ placed[k + 1].start = StartAfter(s, e, AtomFitCount(s, e))
             /\ AtomFitCount(s, e) = e - s => placed[k + 1].start = e
    /\ \A k \in 1..(Len(line_placed) - 1) :
          LET s == line_placed[k].start
              e == line_placed[k].end
          IN /\ line_placed[k + 1].start = StartAfter(s, e, LineFitCount(s, e))
             /\ LineFitCount(s, e) = e - s => line_placed[k + 1].start = e

\* a chunk of several atoms, one of positive cost, all of which fit the
\* overlap budget, was followed by a chunk that starts at its end; an
\* earlier or later chunk of the same call was followed with overlap
C20_Witness ==
    /\ overlap > 0
    /\ \E k \in 1..(Len(placed) - 1) :
          /\ placed[k].end - placed[k].start >= 2
          /\ AtomFitCount(placed[k].start, placed[k].end)
                = placed[k].end - placed[k].start
          /\ \E j \in Range(AtomsOf(k)) : count_tokens(At(j).content) > 0
          /\ placed[k + 1].start = placed[k].end
    /\ \E k \in 1..(Len(placed) - 1) : placed[k + 1].start < placed[k].end

(***************************************************************************)
(* C21                                                                     *)
(***************************************************************************)
\* the index range [s, e) as a list
IndexRange(s, e) == [n \in 1..(e - s) |-> s + n - 1]

\* C21: the atoms placed in each chunk are a contiguous, non-empty index
\* range [start, end) of the atom stream, in stream order; the first chunk
\* starts at 0, each later chunk starts at an index <= the preceding chunk's
\* end, and the last chunk of a returned call ends at N, so that every atom is
\* in at least one chunk, for every budget and overlap.
C21_ChunksAreContiguousRangesCoveringTheStream ==
    /\ \A k \in 1..Len(placed) :
          /\ placed[k].start < placed[k].end
          /\ placed[k].end <= NumAtoms
          /\ AtomsOf(k) = IndexRange(placed[k].start, placed[k].end)
    /\ placed # <<>> => placed[1].start = 0
    /\ \A k \in 2..Len(placed) : placed[k].start <= placed[k - 1].end
    /\ (Returned /\ NumAtoms > 0) =>
          /\ placed # <<>>
          /\ Last(placed).end = NumAtoms
          /\ \A j \in 0..(NumAtoms - 1) : ChunksHolding(j) # {}

\* a returned call with a chunk that starts inside the preceding chunk and a
\* chunk that starts at the preceding chunk's end
C21_Witness ==
    /\ Returned
    /\ Len(placed) >= 3
    /\ \E k \in 2..Len(placed) : placed[k].start < placed[k - 1].end
    /\ \E k \in 2..Len(placed) : placed[k].start = placed[k - 1].end
    /\ \E k \in 1..Len(placed) : Len(AtomsOf(k)) >= 3

(***************************************************************************)
(* C22                                                                     *)
(***************************************************************************)
\* C22: every chunk after the first places at least one atom that the
\* preceding chunk did not place: its exclusive end index is strictly greater
\* than the preceding chunk's exclusive end index, for every overlap value.
C22_EndsStrictlyIncrease ==
    \A k \in 2..Len(placed) : placed[k].end > placed[k - 1].end

(***************************************************************************)
(* C23                                                                     *)
(***************************************************************************)
\* one call of _build_and_count: the scope's atom indices, its owner and the
\* two flags passed
Render(atoms, node_id, is_continuation, has_more) ==
    [atoms |-> atoms, node_id |-> node_id,
     is_continuation |-> is_continuation, has_more |-> has_more]

\* the _build_and_count calls of the iteration of lines 62-126 that starts in
\* the current state
InnerRenders ==
    LET atom == At(i)
    IN IF atom.is_first_in_node
       THEN LET flush == current_scope_atoms # <<>>
                fl == _build_and_count(AtomsAt(current_scope_atoms), FALSE, FALSE)
                stop == flush /\ chunk.text_pieces # <<>>
                        /\ get_tokens(chunk) + fl.tokens > size
                chunk1 == IF flush THEN add_text(chunk, fl.line, fl.tokens)
                          ELSE chunk
                test == _build_and_count(<<atom>>, FALSE, first_atom_has_more(atom))
                back == chunk1.text_pieces # <<>>
                        /\ get_tokens(chunk1) + test.tokens > size
            IN (IF flush    \* line 69
                THEN {Render(current_scope_atoms, current_scope_node_id, FALSE, FALSE)}
                ELSE {})
               \cup (IF ~stop    \* line 82
                     THEN {Render(<<i>>, atom.node_id, FALSE, first_atom_has_more(atom))}
                     ELSE {})
               \cup (IF ~stop /\ ~back /\ atom.is_last_in_node    \* line 123
                     THEN {Render(<<i>>, atom.node_id,
                                  _is_continuation(prev_chunk_last_node_id,
                                                   atom.node_id, <<atom>>), FALSE)}
                     ELSE {})
       ELSE LET node_id == IF current_scope_atoms = <<>> THEN atom.node_id
                           ELSE current_scope_node_id
                test_atoms == Append(current_scope_atoms, i)
                is_cont == _is_continuation(prev_chunk_last_node_id, node_id,
                                            AtomsAt(test_atoms))
                test == _build_and_count(AtomsAt(test_atoms), is_cont,
                                         ~atom.is_last_in_node)
                over == get_tokens(chunk) + test.tokens > size
                        /\ current_scope_atoms # <<>>
            IN {Render(test_atoms, node_id, is_cont, ~atom.is_last_in_node)}  \* line 101
               \cup (IF over    \* line 108
                     THEN {Render(current_scope_atoms, node_id, is_cont, TRUE)}
                     ELSE {})
               \cup (IF ~over /\ atom.is_last_in_node    \* line 123
                     THEN {Render(test_atoms, node_id,
                                  _is_continuation(prev_chunk_last_node_id, node_id,
                                                   AtomsAt(test_atoms)), FALSE)}
                     ELSE {})

\* the _build_and_count calls of lines 128-152
CloseRenders ==
    LET open == current_scope_atoms # <<>>
        is_cont == _is_continuation(prev_chunk_last_node_id,
                                    current_scope_node_id,
                                    AtomsAt(current_scope_atoms))
        bc == _build_and_count(AtomsAt(current_scope_atoms), is_cont, TRUE)
        add == open /\ (chunk.text_pieces = <<>>
                        \/ get_tokens(chunk) + bc.tokens <= size)
        in_chunk1 == IF add THEN atoms_in_chunk \o current_scope_atoms
                     ELSE atoms_in_chunk
        i1 == IF open /\ ~add THEN i - Len(current_scope_atoms) ELSE i
    IN (IF open    \* line 133
        THEN {Render(current_scope_atoms, current_scope_node_id, is_cont, TRUE)}
        ELSE {})
       \cup (IF must_force(in_chunk1, i1)    \* line 149
             THEN {Render(<<i1>>, At(i1).node_id, FALSE, ~At(i1).is_last_in_node)}
             ELSE {})

\* the scope lines rendered by the step that starts in the current state
ScopeRenders ==
    IF pc = "inner" /\ i < Len(all_atoms) THEN InnerRenders
    ELSE IF pc = "close" THEN CloseRenders
    ELSE {}

\* C23: every scope line the packer renders (speculative test, flush on
\* completion, flush on overflow, forced add, and every line kept in a chunk)
\* opens with the continuation opener instead of the first opener exactly
\* when the scope's owner is prev_chunk_last_node_id and the scope's first
\* atom is not the node's first atom, which is exactly when the scope's first
\* atom has is_first_in_node = false.
C23_ContinuationOpenerSelection ==
    /\ \A r \in ScopeRenders :
          LET a == At(r.atoms[1])
              line == _build_scope_line(AtomsAt(r.atoms), r.is_continuation,
                                        r.has_more)
          IN /\ r.is_continuation <=>
                   (r.node_id = prev_chunk_last_node_id /\ ~a.is_first_in_node)
             /\ r.is_continuation <=> ~a.is_first_in_node
             /\ IF ~a.is_first_in_node
                THEN OpensAsContinuation(line, a)
                ELSE OpensAsFirst(line, a)
    /\ \A k \in 1..Len(chunks) : \A x \in NodesIn(k) :
          LET a == At(RunOf(k, x)[1])
          IN /\ OneLinePerNode(k)
             /\ IF ~a.is_first_in_node
                THEN OpensAsContinuation(LineOf(k, x), a)
                ELSE OpensAsFirst(LineOf(k, x), a)

\* after overlap back-tracking into the middle of a node, the chunk's first
\* scope is about to be rendered as a continuation, and such a line was kept
\* in an earlier chunk that also began in the middle of a node
C23_Witness ==
    /\ pc = "inner"
    /\ Len(placed) >= 2
    /\ i = chunk_start_idx
    /\ i < Last(placed).end
    /\ ~At(i).is_first_in_node
    /\ \E r \in ScopeRenders : r.is_continuation /\ Len(r.atoms) = 1
    /\ LET k == Len(placed)
       IN /\ ~FirstAtomOf(k).is_first_in_node
          /\ OpensAsContinuation(LineOf(k, FirstAtomOf(k).node_id), FirstAtomOf(k))

(***************************************************************************)
(* C24                                                                     *)
(***************************************************************************)
\* the breadcrumb piece of chunk k, as a list of zero or one fragment
BreadcrumbOf(k) ==
    IF k > 1 /\ include_parent_path /\ FirstAtomOf(k).chunk_context # ""
    THEN <<FirstAtomOf(k).chunk_context>>
    ELSE <<>>

\* the one line of node x in chunk k: all of the node's atoms placed in the
\* chunk, opened and closed according to what of the node is left out
ScopeLineOf(k, x) ==
    LET run == RunOf(k, x)
    IN _build_scope_line(AtomsAt(run), ~At(run[1]).is_first_in_node,
                         ~At(Last(run)).is_last_in_node)

\* C24: within one chunk all atoms of one node placed in the chunk are
\* rendered as exactly one scope line: the chunk's fragments are its
\* breadcrumb (if any) followed by one line per distinct owner node among the
\* chunk's atoms, in stream order; no node has two lines in one chunk.
C24_OneScopeLinePerNode ==
    \A k \in 1..Len(chunks) :
        LET nodes == Sorted(NodesIn(k))
        IN /\ chunks[k].text_pieces =
                 BreadcrumbOf(k) \o [n \in 1..Len(nodes) |-> ScopeLineOf(k, nodes[n])]
           /\ \A n \in 1..(Len(AtomsOf(k)) - 1) :
                 At(AtomsOf(k)[n]).node_id <= At(AtomsOf(k)[n + 1]).node_id

\* a chunk with a breadcrumb and two nodes, one of them with several atoms of
\* which the chunk holds some but not all
C24_Witness ==
    \E k \in 2..Len(chunks) :
        /\ BreadcrumbOf(k) # <<>>
        /\ Cardinality(NodesIn(k)) >= 2
        /\ \E x \in NodesIn(k) :
              /\ Len(RunOf(k, x)) >= 2
              /\ Len(RunOf(k, x)) < Len(NodeAtoms(x))

(***************************************************************************)
(* C25                                                                     *)
(***************************************************************************)
Visits == IF semantic_ir = NoTree THEN <<>> ELSE dfs(semantic_ir)

\* list(serializer) returned the atoms of semantic_ir
Serialized == semantic_ir # NoTree /\ exception = "" /\ all_atoms # <<>>

\* the data and the visit of the node with id x
VisitOf(x) == Visits[x + 1]
DataOf(x) == semantic_ir.data[VisitOf(x).node]

\* what the unsplit line of node x has before and after the node's content
UnsplitOpening(x) ==
    LET d == DataOf(x)
    IN Repeat("  ", VisitOf(x).depth) \o "- "
       \o (IF d.kind = "text" THEN "\""
           ELSE IF d.semantic_attributes # <<>> THEN base_id(d) \o " ("
           ELSE base_id(d))
UnsplitClosing(x) ==
    LET d == DataOf(x)
    IN IF d.kind = "text" THEN "\""
       ELSE IF d.semantic_attributes # <<>> THEN ")"
       ELSE ""

\* the atoms of the last _build_scope_line call
CalledAtoms ==
    [n \in 1..(scope_line_call.last - scope_line_call.first + 1) |->
       At(scope_line_call.first + n - 1)]

\* the call was made with the opening and closing pair that fits the run
CorrectPair ==
    /\ scope_line_call # NoLine
    /\ scope_line_call.is_continuation = ~At(scope_line_call.first).is_first_in_node
    /\ scope_line_call.has_more = ~At(scope_line_call.last).is_last_in_node

\* C25: for every node, all of its atoms rendered as one scope with the first
\* opening and the complete closing give exactly the node's unsplit line
\* (indentation, "- ", to_markdown()); a contiguous sub-range rendered with
\* the fitting pair differs from it only by the "..." markers and the atoms
\* left out.  For every attribute list and every text, also with leading,
\* trailing or repeated whitespace.
C25_ScopeLineReproducesUnsplitLine ==
    Serialized =>
        /\ \A x \in AllNodeIds :
              _build_scope_line(NodeAtoms(x), FALSE, FALSE) = UnsplitLine(VisitOf(x))
        /\ CorrectPair =>
              LET x == At(scope_line_call.first).node_id
              IN /\ UnsplitLine(VisitOf(x)) =
                       UnsplitOpening(x)
                       \o JoinSpace(NonEmptyContents(NodeAtoms(x)))
                       \o UnsplitClosing(x) \o "\n"
                 /\ scope_line_call.line =
                       UnsplitOpening(x)
                       \o (IF scope_line_call.is_continuation THEN "... " ELSE "")
                       \o JoinSpace(NonEmptyContents(CalledAtoms))
                       \o (IF scope_line_call.has_more THEN " ..." ELSE "")
                       \o UnsplitClosing(x) \o "\n"

(***************************************************************************)
(* C26                                                                     *)
(***************************************************************************)
TreeNodes == DOMAIN semantic_ir.data

\* the position (1-based) of tree node n in the visit order
PosOf(n) == CHOOSE p \in DOMAIN Visits : Visits[p].node = n

\* tree node n and everything below it
RECURSIVE Subtree(_)
Subtree(n) == {n} \cup UNION {Subtree(c) : c \in Range(semantic_ir.children[n])}

\* DFS pre-order from the root: every node once, the root first at depth 0,
\* every child one level below its parent and after it, and the whole
\* subtree of a child before the next child
IsPreOrder ==
    /\ Len(Visits) = Cardinality(TreeNodes)
    /\ {Visits[p].node : p \in DOMAIN Visits} = TreeNodes
    /\ Visits[1].node = 1 /\ Visits[1].depth = 0
    /\ \A n \in TreeNodes :
          LET kids == semantic_ir.children[n]
          IN /\ \A k \in DOMAIN kids :
                   /\ PosOf(kids[k]) > PosOf(n)
                   /\ Visits[PosOf(kids[k])].depth = Visits[PosOf(n)].depth + 1
             /\ kids # <<>> => PosOf(kids[1]) = PosOf(n) + 1
             /\ \A k \in 1..(Len(kids) - 1) :
                   PosOf(kids[k + 1]) = PosOf(kids[k]) + Cardinality(Subtree(kids[k]))

\* C26: the atom stream is well-formed for every tree: the nodes are visited
\* in DFS pre-order and get node ids that strictly increase in visit order
\* (0, 1, 2, ...) and are never reused; all atoms with the same node id are
\* contiguous; within each node's run exactly the first atom has
\* is_first_in_node and exactly the last has is_last_in_node.
C26_AtomStreamIsWellFormed ==
    Serialized =>
        /\ IsPreOrder
        /\ AllNodeIds = 0..(Len(Visits) - 1)
        /\ \A n \in 1..(NumAtoms - 1) :
              all_atoms[n + 1].node_id \in {all_atoms[n].node_id, all_atoms[n].node_id + 1}
        /\ \A x \in AllNodeIds :
              LET run == NodeAtoms(x)
              IN /\ run # <<>>
                 /\ \A k \in DOMAIN run :
                       /\ run[k].is_first_in_node <=> k = 1
                       /\ run[k].is_last_in_node <=> k = Len(run)
                       /\ StartsWith(run[k].line_start_first,
                                     Repeat("  ", VisitOf(x).depth) \o "- ")

\* a tree with siblings, of which one has several atoms and one has one atom
C26_Witness ==
    /\ Serialized
    /\ scope_line_call = NoLine
    /\ Len(Visits) >= 3
    /\ Len(semantic_ir.children[1]) >= 2
    /\ \E x \in AllNodeIds : Len(NodeAtoms(x)) >= 3
    /\ \E x \in AllNodeIds : x > 0 /\ Len(NodeAtoms(x)) = 1

(***************************************************************************)
(* C27                                                                     *)
(***************************************************************************)
\* the positions of text at which a whitespace-delimited word begins
WordStarts(text) ==
    {p \in 1..Len(text) :
        /\ ~IsSpace(SubSeq(text, p, p))
        /\ p = 1 \/ IsSpace(SubSeq(text, p - 1, p - 1))}

\* the word of text that begins at p: up to the next whitespace or the end
WordAt(text, p) ==
    LET q == CHOOSE e \in p..Len(text) :
                 /\ \A c \in p..e : ~IsSpace(SubSeq(text, c, c))
                 /\ e = Len(text) \/ IsSpace(SubSeq(text, e + 1, e + 1))
    IN SubSeq(text, p, q)

\* the whitespace-delimited words of text, in order
WordsOf(text) ==
    LET starts == Sorted(WordStarts(text))
    IN [k \in DOMAIN starts |-> WordAt(text, starts[k])]

Contents(atoms) == [k \in DOMAIN atoms |-> atoms[k].content]

\* C27: an element without attributes yields exactly one atom, with empty
\* content, opening_first = opening_continuation = the complete line
\* (indentation, "- ", id) and both closings empty, so that it is rendered
\* without a "..." marker whatever flags are passed; an element with k >= 1
\* attributes yields exactly k atoms in attribute order with content
\* key="value"; a text yields one atom per whitespace-delimited word in
\* order, and exactly one empty-content atom when it has no word.
C27_AtomsOfEachNodeKind ==
    Serialized =>
        /\ \A x \in AllNodeIds :
              LET d == DataOf(x)
                  run == NodeAtoms(x)
                  complete == Repeat("  ", VisitOf(x).depth) \o "- " \o base_id(d)
              IN IF d.kind = "element" /\ d.semantic_attributes = <<>>
                 THEN /\ Len(run) = 1
                      /\ run[1].content = ""
                      /\ run[1].line_start_first = complete
                      /\ run[1].line_start_cont = complete
                      /\ run[1].line_end_complete = ""
                      /\ run[1].line_end_cont = ""
                 ELSE IF d.kind = "element"
                 THEN /\ Len(run) = Len(d.semantic_attributes)
                      /\ \A k \in DOMAIN run :
                            run[k].content =
                               d.semantic_attributes[k][1] \o "=\""
                               \o d.semantic_attributes[k][2] \o "\""
                 ELSE IF WordStarts(d.text) = {}
                 THEN Len(run) = 1 /\ run[1].content = ""
                 ELSE Contents(run) = WordsOf(d.text)
        /\ scope_line_call # NoLine =>
              LET x == At(scope_line_call.first).node_id
                  d == DataOf(x)
              IN (d.kind = "element" /\ d.semantic_attributes = <<>>) =>
                    scope_line_call.line =
                       Repeat("  ", VisitOf(x).depth) \o "- " \o base_id(d) \o "\n"

\* a tree with an element without attributes, an element with several
\* attributes and a text of several words; the element without attributes
\* was rendered with both continuation flags set
C27_Witness ==
    /\ Serialized
    /\ \E x \in AllNodeIds :
          DataOf(x).kind = "element" /\ Len(NodeAtoms(x)) >= 2
    /\ \E x \in AllNodeIds :
          DataOf(x).kind = "text" /\ Len(NodeAtoms(x)) >= 2
    /\ scope_line_call # NoLine
    /\ scope_line_call.is_continuation /\ scope_line_call.has_more
    /\ LET d == DataOf(At(scope_line_call.first).node_id)
       IN d.kind = "element" /\ d.semantic_attributes = <<>>

(***************************************************************************)
(* C28                                                                     *)
(***************************************************************************)
ParentOf(n) == CHOOSE m \in TreeNodes : n \in Range(semantic_ir.children[m])

\* the ancestors of tree node n, root first
RECURSIVE AncestorsOf(_)
AncestorsOf(n) ==
    IF n = 1 THEN <<>> ELSE Append(AncestorsOf(ParentOf(n)), ParentOf(n))

\* one bullet line per ancestor, each at the ancestor's own indentation
BreadcrumbLines(n) ==
    LET anc == AncestorsOf(n)
    IN [j \in DOMAIN anc |->
          Repeat("  ", j - 1) \o "- " \o base_id(semantic_ir.data[anc[j]]) \o "\n"]

\* C28: for every atom of a node at depth d the breadcrumb (chunk_context) is
\* exactly d lines, root first; line j (0-based) is 2*j spaces, "- ", the
\* display id of the node's ancestor at depth j (readable id if present, else
\* tag) and a newline; atoms of the root have an empty breadcrumb and all
\* atoms of one node carry the same breadcrumb.
C28_BreadcrumbOfAncestors ==
    Serialized =>
        \A n \in DOMAIN all_atoms :
            LET a == all_atoms[n]
                v == VisitOf(a.node_id)
            IN /\ Len(AncestorsOf(v.node)) = v.depth
               /\ Len(BreadcrumbLines(v.node)) = v.depth
               /\ a.chunk_context = Concat(BreadcrumbLines(v.node))
               /\ v.depth = 0 => a.chunk_context = ""
               /\ \A m \in DOMAIN all_atoms :
                     all_atoms[m].node_id = a.node_id =>
                        all_atoms[m].chunk_context = a.chunk_context

\* a node with several atoms at depth 2, below an ancestor with a tag only
\* and an ancestor with a readable id
C28_Witness ==
    /\ Serialized
    /\ \E x \in AllNodeIds :
          LET anc == AncestorsOf(VisitOf(x).node)
          IN /\ VisitOf(x).depth >= 2
             /\ Len(NodeAtoms(x)) >= 2
             /\ NodeAtoms(x)[1].chunk_context # ""
             /\ \E j \in DOMAIN anc : semantic_ir.data[anc[j]].readable_id = ""
             /\ \E j \in DOMAIN anc : semantic_ir.data[anc[j]].readable_id # ""


(***************************************************************************)
(* C29: the tree and the state of chunk_semantic_ir between calls          *)
(***************************************************************************)

\* when a call, the first or the second, has made its atom list, the atoms
\* are those a new walker, counting from 0, gives for the tree
AtomsOfNewWalker ==
    pc \in {"outer", "done", "raised"} /\ chunks = <<>> /\ i = 0 =>
        /\ all_atoms = SerializeFrom(semantic_ir, dfs(semantic_ir), 0).atoms
        /\ all_atoms # <<>> => At(0).node_id = 0

\* no step of a call touches the caller's tree, nor the atom list made of it
TreeIsOnlyRead ==
    pc \notin {"idle", "done", "raised"} =>
        semantic_ir' = semantic_ir /\ all_atoms' = all_atoms

\* a call made after another one starts with nothing of the one before: no
\* chunk, the cursor at 0, no last node, an empty chunk and scope, no
\* tokenizer call counted
PackingStateIsNew ==
    pc \in {"done", "raised"} =>
        /\ chunks' = <<>>
        /\ i' = 0
        /\ prev_chunk_last_node_id' = None
        /\ chunk' = Chunk
        /\ atoms_in_chunk' = <<>>
        /\ current_scope_atoms' = <<>>
        /\ current_scope_node_id' = None
        /\ calls' = 0

\* a second call with the same arguments ends as the first did: the same
\* atoms, the same chunks, the same exception
SameResultAgain ==
    earlier.returned /\ pc \in {"done", "raised"} =>
        /\ all_atoms = earlier.atoms
        /\ chunks = earlier.chunks
        /\ exception = earlier.exception

\* C29: chunk_semantic_ir leaves the input tree as it was (no step of a call
\* changes the tree or the atoms made of it, so that to the end of every call
\* the atoms are those of the present tree), and nothing is kept from one call to the next: in every
\* call, the first as well as a later one, the walker numbers the nodes from
\* 0, a later call starts with new, empty packing state, and a second call
\* with the same arguments gives the atoms and the chunks of the first.
C29_TreeUnchangedAndNoStateBetweenCalls ==
    /\ []AtomsOfNewWalker
    /\ []SameResultAgain
    /\ [][TreeIsOnlyRead]_vars
    /\ [][PackingStateIsNew]_vars

\* a second call that packed several chunks
C29_Witness ==
    /\ earlier.returned
    /\ Len(earlier.chunks) >= 2
    /\ pc = "done"
    /\ Len(chunks) >= 2
    /\ At(0).node_id = 0
    /\ Last(all_atoms).node_id >= 1

(***************************************************************************)
(* C30: the entries of _collect_lines                                      *)
(***************************************************************************)
\* the line of the p-th visited node before any truncation
FullLine(p) ==
    Repeat("  ", Visits[p].depth) \o "- "
        \o to_markdown(semantic_ir.data[Visits[p].node])

\* text costs no more than max_line_tokens
Fits(text) == count_tokens(text) <= max_line_tokens

\* the first m characters of text followed by "..."
Shortened(text, m) == SubSeq(text, 1, m) \o "..."

\* entry p is the line of the p-th node, whole if it fits and else cut to the
\* longest prefix that fits together with "..."
EntryIsLineOrLongestFittingPrefix(p) ==
    LET full == FullLine(p)
        e == all_lines[p]
    IN /\ e.tokens = count_tokens(e.markdown)
       /\ IF Fits(full) THEN e.markdown = full
          ELSE LET m == Len(e.markdown) - Len("...")
               IN /\ m \in 0..Len(full)
                  /\ e.markdown = Shortened(full, m)
                  /\ Fits(Shortened(full, m))
                  /\ \A longer \in (m + 1)..Len(full) :
                        ~Fits(Shortened(full, longer))

\* C30: _collect_lines returns one entry per tree node in DFS pre-order, every
\* entry's token count is at most max_line_tokens, and a line that costs more
\* than max_line_tokens is replaced by its longest prefix which, followed by
\* "...", is within the limit.
C30_EveryEntryWithinMaxLineTokens ==
    line_pc = "collected" =>
        /\ IsPreOrder
        /\ Len(all_lines) = Len(Visits)
        /\ \A p \in DOMAIN all_lines :
              /\ all_lines[p].tokens <= max_line_tokens
              /\ EntryIsLineOrLongestFittingPrefix(p)

\* the same, for limits that "..." alone fits in
C30_HoldsWhenEllipsisFits ==
    line_pc = "collected" /\ Fits("...") =>
        /\ IsPreOrder
        /\ Len(all_lines) = Len(Visits)
        /\ \A p \in DOMAIN all_lines :
              /\ all_lines[p].tokens <= max_line_tokens
              /\ EntryIsLineOrLongestFittingPrefix(p)

\* a line was cut somewhere inside and a line of the same tree was kept whole
C30_Witness ==
    /\ line_pc = "collected"
    /\ Fits("...")
    /\ \E p \in DOMAIN all_lines :
          /\ ~Fits(FullLine(p))
          /\ Len(all_lines[p].markdown) > Len("...") + 1
    /\ \E p \in DOMAIN all_lines : all_lines[p].markdown = FullLine(p)

====
